---- MODULE Spec2Model ----
(***************************************************************************)
(* State-machine model of the sol-agent runtime: the durable store's inbox *)
(* admission path (src/src/state/database.ts), the agent control loop      *)
(* (src/src/agent/loop.ts), its tools (src/unnamed/part_011) and the host  *)
(* process that re-invokes the loop (src/src/index.ts and the newer        *)
(* variant src/unnamed/part_013).                                          *)
(*                                                                         *)
(* Time is counted in whole seconds, relative to the current instant.      *)
(***************************************************************************)
EXTENDS Integers, Sequences, FiniteSets, Bags, TLC

\* ------------------------------------------------------------------------
\* Program constants
\* ------------------------------------------------------------------------
INBOX_PER_SENDER_LIMIT == 10
INBOX_GLOBAL_LIMIT == 100
MAX_TOOL_CALLS_PER_TURN == 10
MAX_CONSECUTIVE_ERRORS == 5
MAX_INBOX_PER_CYCLE == 20
\* the exec tool's timeout: floor, ceiling and default, milliseconds
EXEC_MIN_TIMEOUT_MS == 1000
EXEC_MAX_TIMEOUT_MS == 300000
EXEC_DEFAULT_TIMEOUT_MS == 30000
\* the timeout of install_npm_package's exec call
INSTALL_TIMEOUT_MS == 60000
\* db.getUnprocessedInboxMessages(5)
InboxDrainLimit == 5
\* SURVIVAL_THRESHOLDS (credits, in cents)
ThresholdNormal == 50
ThresholdLowCompute == 10
ThresholdDead == 0
\* wake delays written by the loop, seconds
IdleSleepSecs == 60
FatalSleepSecs == 300
\* host waits, seconds
HostDeadWaitSecs == 300
HostDefaultSleepSecs == 60
HostMinSleepSecs == 10
HostCheckIntervalSecs == 30
HostRetrySecs == 30
HOST_MAX_CONSECUTIVE_ERRORS == 5
BASE_RETRY_DELAY_SECS == 5
MAX_RETRY_DELAY_SECS == 300

\* ------------------------------------------------------------------------
\* Bounds of the model
\* ------------------------------------------------------------------------
\* number of distinct sender addresses the relay delivers from
NumSenders == 11
\* number of store operations explored in the inbox specification
MaxInboxOps == 4
\* sizes of the batches one relay poll returns (a trickle, a flood)
SmallPoll == 12
LargePoll == 110
\* loop invocations plus loop cycles explored per run
MaxSteps == 7
\* the most directory levels of a path handed to a file tool
MaxPathDepth == 2
\* messages the relay delivers while the loop specification runs
MaxLoopMsgs == 2
MaxLoopPolls == 1

\* an absent KV row / absent optional field
None == 0 - 1
\* let pendingInput = undefined
NoInput == "undefined"

VARIABLES
  now,          \* wall clock, seconds
  \* --- durable store ---
  agentState,   \* KV row agent_state ("setup" when absent)
  sleepUntil,   \* KV row sleep_until as a time, None when absent
  wakeRequest,  \* TRUE iff the KV row wake_request exists
  inbox,        \* rows of inbox_messages in insertion (rowid) order
  inboxSeen,    \* ids with a KV row inbox_seen_<id>
  \* --- runAgentLoop: position and locals ---
  pc,                      \* position of the control loop
  running,                 \* let running
  consecutiveErrors,       \* let consecutiveErrors
  inboxProcessedThisCycle, \* let inboxProcessedThisCycle
  pendingInput,            \* source of the pending input, NoInput when undefined
  currentInput,            \* const currentInput of the cycle
  financial,               \* let financial: creditsCents, creditsCheckError
  lowComputeMode,          \* the inference client's low-compute flag
  response,                \* the model response of the cycle
  turnCalls,               \* turn.toolCalls built so far
  tcIdx,                   \* index of the next tool call of the response
  callCount,               \* let callCount
  \* --- host process ---
  hostVariant,  \* which of the two host sources runs: "index" or "runtime"
  hostPc,       \* position of the host's run loop
  hostErrors,   \* runtime variant: let consecutiveErrors of the run loop
  hostTimer,    \* time at which the host's pending sleep() resolves
  sleepMs,      \* const sleepMs of the host's sleep wait
  slept,        \* let slept
  hbRunning,    \* the heartbeat daemon's running flag
  \* --- observation of the run (not program state) ---
  exitPath,     \* which exit the current loop invocation took
  chatCalls,    \* inference.chat calls made in the current invocation
  chatCallsInStreak, \* ... of them, in the cycles since the last successful cycle
  failsSinceOk, \* failed cycles since the last successful cycle
  failedCycles, \* failed cycles in the current invocation
  finChecks,    \* balance checks made in the current invocation
  turnsInserted, \* db.insertTurn calls made in the current invocation
  sleepOk,      \* a sleep tool call succeeded in the current invocation
  steps,        \* loop invocations and cycles started so far
  executed,     \* ids of the tool calls handed to executeTool in the current turn
  drainLog,     \* the messages drained in the current cycle, each with the
                \* sanitizer's verdict on it
  \* --- heartbeat daemon (time in minutes since heartbeat.start()) ---
  hbEntries,    \* rows of heartbeat_entries: name, task, enabled, period, lastRun
  hbPos,        \* index of the entry the running tick looks at next, 0: no tick runs
  hbLow,        \* const isLowCompute of the running tick
  hbCredits,    \* the credits balance of the account
  hbTicks,      \* ticks begun so far
  hbLast,       \* observation: the last handler call, its outcome, and whether
                \* the survival tier was below normal when it was made
  hbThrew,      \* observation: names of the entries whose handler has thrown
  hbForced,     \* forceRun calls made so far
  \* --- balance checks ---
  fetched,      \* outcomes of the collaborator calls of the last balance check
  finResult,    \* what the last balance check returned
  currentTier,  \* KV row current_tier ("none" when absent)
  stateAtCheck, \* observation, while inference.chat is awaited: the persisted
                \* state the cycle found when its balance check returned
                \* ("none" at any other time)
  \* --- tables turns and tool_calls, followed in the persistence specification ---
  turns,        \* rows of turns, in insertion order: id and the ids in the
                \* tool_calls column
  toolCallRows, \* rows of tool_calls, in insertion order: turnId and id
  \* --- tool calls (createBuiltinTools) ---
  toolCall,     \* the last tool call: name, target (path, command or package)
                \* and argument
  toolResult,   \* what its execute returned ("none" before the first call)
  ops,          \* the collaborator and store operations the call made, in order
  modifications, \* rows of the modifications table, in insertion order
  selfChanges,  \* observation: per tool call so far, what it changed of the
                \* agent ("none", "edit", "install") and whether it left an entry
  \* --- heartbeat daemon: start, stop and calls in flight ---
  activeTimers, \* interval timers set by setInterval and not cleared
  inFlight,     \* the tick and forceRun calls that have not returned, as a
                \* bag: how each was started, the entries it read, whether
                \* its tier is low, and the entry whose handler it awaits
                \* (0: it awaits the balance)
  hbClock,      \* minutes since the host called heartbeat.start()
  daemonCalls,  \* start, stop and forceRun calls made so far
  \* --- replication and credit transfers ---
  children,     \* rows of children, in insertion order: id and status
  creditsBalance, \* the credits balance the client reports, in cents
  transactions, \* rows of transactions, in insertion order
  lastTransfer, \* observation: the last transfer_credits or fund_child call,
                \* the balance it read, and how it ended
  \* --- calls of sanitizeInput ---
  sanArg,       \* text and claimed sender of the last sanitizeInput call
  sanResult,    \* what the call returned
  \* --- calls of getSurvivalTier ---
  tierArg,      \* the balance of the last getSurvivalTier call (0 before it)
  tierResult,   \* what the call returned ("none" before the first call)
  nextId,       \* next fresh message id handed out by the relay
  inboxOps,     \* number of store operations done (bounded exploration)
  lastOp        \* the last store operation and its argument;
                \* freed: a mark took the queue below the global cap, or the
                \* insert directly follows such a mark

storeVars == <<agentState, sleepUntil, wakeRequest, inbox, inboxSeen>>
loopVars == <<pc, running, consecutiveErrors, inboxProcessedThisCycle, pendingInput,
              currentInput, financial, lowComputeMode, response, turnCalls, tcIdx,
              callCount>>
hostVars == <<hostVariant, hostPc, hostErrors, hostTimer, sleepMs, slept, hbRunning>>
obsVars == <<exitPath, chatCalls, chatCallsInStreak, failsSinceOk, failedCycles,
             finChecks, turnsInserted, sleepOk, steps>>
relayVars == <<nextId, inboxOps, lastOp>>
hbVars == <<hbEntries, hbPos, hbLow, hbCredits, hbTicks, hbLast, hbThrew, hbForced>>
finVars == <<fetched, finResult, currentTier>>
turnVars == <<turns, toolCallRows>>
toolVars == <<toolCall, toolResult, ops, modifications, selfChanges>>
tierVars == <<tierArg, tierResult>>
ghostVars == <<stateAtCheck>>
\* the variables of the calls checked on their own
sanVars == <<sanArg, sanResult>>
daemonVars == <<activeTimers, inFlight, hbClock, daemonCalls>>
\* the variables of the specifications of single components
replVars == <<children, creditsBalance, transactions, lastTransfer>>
partVars == <<daemonVars, replVars>>
callVars == <<tierVars, sanVars, partVars>>
\* the variables of the heartbeat's tick and of the balance checks, which the
\* loop and the host neither read nor write
sideVars == <<hbVars, finVars, callVars, turnVars, toolVars>>
vars == <<now, storeVars, loopVars, hostVars, obsVars, relayVars, executed, drainLog,
          sideVars, ghostVars>>
\* everything but the clock, the inbox tables and the wake request
nonInboxVars == <<agentState, sleepUntil, loopVars, hostVars, obsVars, executed,
                  drainLog, sideVars, ghostVars>>

Senders == 1..NumSenders

Min(a, b) == IF a < b THEN a ELSE b
Max(a, b) == IF a > b THEN a ELSE b

\* ------------------------------------------------------------------------
\* Durable store: inbox_messages
\* ------------------------------------------------------------------------
\* SELECT COUNT(*) FROM inbox_messages WHERE processed_at IS NULL
UnprocessedCount(box) ==
  Cardinality({i \in 1..Len(box) : ~box[i].processed})

\* SELECT COUNT(*) ... WHERE from_address = ? AND processed_at IS NULL
SenderUnprocessedCount(box, from) ==
  Cardinality({i \in 1..Len(box) : box[i].from = from /\ ~box[i].processed})

HasId(box, id) == \E i \in 1..Len(box) : box[i].id = id

\* the row an admitted message becomes
InboxRow(msg, t) ==
  [id |-> msg.id, from |-> msg.from,
   receivedAt |-> IF msg.createdAt = None THEN t ELSE msg.createdAt,
   processed |-> FALSE]

insertInboxMessage_GlobalOffByOne(box, msg, t) ==
  IF UnprocessedCount(box) > INBOX_GLOBAL_LIMIT THEN box
  ELSE IF SenderUnprocessedCount(box, msg.from) >= INBOX_PER_SENDER_LIMIT THEN box
  ELSE IF HasId(box, msg.id) THEN box
  ELSE Append(box, InboxRow(msg, t))

insertInboxMessage_NoSenderCap(box, msg, t) ==
  IF UnprocessedCount(box) >= INBOX_GLOBAL_LIMIT THEN box
  ELSE IF HasId(box, msg.id) THEN box
  ELSE Append(box, InboxRow(msg, t))

insertInboxMessage_SenderCapCountsAll(box, msg, t) ==
  IF UnprocessedCount(box) >= INBOX_GLOBAL_LIMIT THEN box
  ELSE IF UnprocessedCount(box) >= INBOX_PER_SENDER_LIMIT THEN box
  ELSE IF HasId(box, msg.id) THEN box
  ELSE Append(box, InboxRow(msg, t))

\* insertInboxMessage: both caps are checked first, then INSERT OR IGNORE
insertInboxMessage(box, msg, t) ==
  IF UnprocessedCount(box) >= INBOX_GLOBAL_LIMIT THEN box
  ELSE IF SenderUnprocessedCount(box, msg.from) >= INBOX_PER_SENDER_LIMIT THEN box
  ELSE IF HasId(box, msg.id) THEN box
  ELSE Append(box, InboxRow(msg, t))

\* UPDATE inbox_messages SET processed_at = datetime('now') WHERE id = ?
markInboxMessageProcessed(box, id) ==
  [i \in 1..Len(box) |->
     IF box[i].id = id THEN [box[i] EXCEPT !.processed = TRUE] ELSE box[i]]

\* the oldest unprocessed row's id (None when the queue is empty)
FirstUnprocessedId(box) ==
  LET U == {i \in 1..Len(box) : ~box[i].processed}
  IN IF U = {} THEN None
     ELSE box[CHOOSE i \in U : \A j \in U : i <= j].id

\* ------------------------------------------------------------------------
\* Heartbeat task check_social_inbox: insert every polled message that has
\* no inbox_seen_<id> row, mark it seen, count it
\* ------------------------------------------------------------------------
PollStep(acc, msg, t) ==
  IF msg.id \in acc.seen THEN acc
  ELSE [box |-> insertInboxMessage(acc.box, msg, t),
        seen |-> acc.seen \cup {msg.id},
        newCount |-> acc.newCount + 1]

\* the for-loop over msgs[lo..hi], left to right (split in halves, the left
\* half evaluated first, to keep the evaluation depth logarithmic)
RECURSIVE PollFold(_, _, _, _, _)
PollFold(acc, msgs, lo, hi, t) ==
  IF lo > hi THEN acc
  ELSE IF lo = hi THEN PollStep(acc, msgs[lo], t)
  ELSE LET mid == (lo + hi) \div 2
           left == PollFold(acc, msgs, lo, mid, t)
       IN IF left.newCount >= 0 /\ Len(left.box) >= 0
          THEN PollFold(left, msgs, mid + 1, hi, t)
          ELSE left

\* a polled batch of n messages with fresh ids, round-robin over k senders,
\* stamped by the relay in the order sent
PolledBatch(k, n, firstId) ==
  [i \in 1..n |-> [id |-> firstId + i - 1, from |-> ((i - 1) % k) + 1,
                   createdAt |-> firstId + i - 1]]

\* ------------------------------------------------------------------------
\* Durable store: reading the queue
\* ------------------------------------------------------------------------
\* indices of the first n unprocessed rows, ORDER BY received_at ASC (rows
\* with equal received_at in rowid order)
RECURSIVE OldestIdx(_, _, _)
OldestIdx(box, cand, n) ==
  IF n = 0 \/ cand = {} THEN << >>
  ELSE LET first == CHOOSE i \in cand : \A j \in cand :
                      \/ box[i].receivedAt < box[j].receivedAt
                      \/ (box[i].receivedAt = box[j].receivedAt /\ i <= j)
       IN <<first>> \o OldestIdx(box, cand \ {first}, n - 1)

getUnprocessedInboxMessages_NewestFirst(box, limit) ==
  LET U == {i \in 1..Len(box) : ~box[i].processed}
      idx == OldestIdx(box, U, Cardinality(U))
      n == Len(idx)
  IN [k \in 1..Min(limit, n) |-> box[idx[n - k + 1]].id]

\* db.getUnprocessedInboxMessages(limit): the ids, in the order returned
getUnprocessedInboxMessages(box, limit) ==
  LET idx == OldestIdx(box, {i \in 1..Len(box) : ~box[i].processed}, limit)
  IN [k \in 1..Len(idx) |-> box[idx[k]].id]

\* ------------------------------------------------------------------------
\* Input sanitizer (src/agent/injection-defense).  A text is modelled by the
\* set of detectors it triggers.
\* ------------------------------------------------------------------------
Detectors == {"instruction", "authority", "boundary", "obfuscation", "financial",
              "self_harm"}

\* severity each detector reports when it fires
HighDetectors == {"boundary", "financial", "self_harm"}

\* the co-occurrences that escalate to critical
CriticalPairs == {{"self_harm", "instruction"}, {"financial", "authority"},
                  {"boundary", "instruction"}}

\* sanitizeInput(text, from): the aggregate threat level is the highest
\* severity, escalated to critical for a critical pair; critical blocks the
\* text (the content becomes a block notice), high strips the boundary
\* characters, low and medium pass the text through
sanitizeInput(text) ==
  LET level == IF \E P \in CriticalPairs : P \subseteq text THEN "critical"
               ELSE IF text \cap HighDetectors # {} THEN "high"
               ELSE IF text # {} THEN "medium"
               ELSE "low"
  IN [threatLevel |-> level,
      blocked |-> (level = "critical"),
      content |-> IF level = "critical" THEN "block_notice"
                  ELSE IF level = "high" THEN "stripped"
                  ELSE "original"]

sanitizeInputFrom_PassesCritical(text, from) ==
  [threatLevel |-> sanitizeInput(text).threatLevel,
   blocked |-> FALSE,
   content |-> [notice |-> FALSE, names |-> 0, original |-> text, stripped |-> FALSE]]

\* sanitizeInput(text, from) with what the returned content holds: the
\* block notice or not, the sender the notice names (0: none), the parts of
\* the original text (by the detectors they trigger), and whether the
\* boundary characters were stripped from them
sanitizeInputFrom(text, from) ==
  LET r == sanitizeInput(text)
  IN [threatLevel |-> r.threatLevel,
      blocked |-> r.blocked,
      content |-> [notice |-> r.content = "block_notice",
                   names |-> IF r.content = "block_notice" THEN from ELSE 0,
                   original |-> IF r.content = "block_notice" THEN {} ELSE text,
                   stripped |-> r.content = "stripped"]]

\* the texts of the messages the relay delivers
Texts == << {}, {"instruction"}, {"self_harm"}, {"obfuscation", "authority"},
            {"self_harm", "instruction"}, {"boundary"}, {"financial", "authority"} >>

\* m.content of the message with this id (the content column is written
\* once, at insertion)
MessageText(id) == Texts[(id % Len(Texts)) + 1]

RECURSIVE MarkAll_SkipBlocked(_, _)
MarkAll_SkipBlocked(box, ids) ==
  IF ids = << >> THEN box
  ELSE MarkAll_SkipBlocked(
         IF sanitizeInput(MessageText(Head(ids))).blocked THEN box
         ELSE markInboxMessageProcessed(box, Head(ids)),
         Tail(ids))

\* the loop's for-loop over the drained messages: each is marked processed
RECURSIVE MarkAll(_, _)
MarkAll(box, ids) ==
  IF ids = << >> THEN box
  ELSE MarkAll(markInboxMessageProcessed(box, Head(ids)), Tail(ids))

\* lines 126-140: what the for-loop makes of each drained message: the
\* sanitizer's verdict and the part pushed to the next input
Sanitized(ids) ==
  [k \in 1..Len(ids) |->
     [id |-> ids[k],
      threatLevel |-> sanitizeInput(MessageText(ids[k])).threatLevel,
      part |-> sanitizeInput(MessageText(ids[k])).content]]

\* ------------------------------------------------------------------------
\* Survival tier and financial state
\* ------------------------------------------------------------------------
getSurvivalTier_NonStrict(creditsCents) ==
  IF creditsCents >= ThresholdNormal THEN "normal"
  ELSE IF creditsCents >= ThresholdLowCompute THEN "low_compute"
  ELSE IF creditsCents >= ThresholdDead THEN "critical"
  ELSE "dead"

getSurvivalTier(creditsCents) ==
  IF creditsCents > ThresholdNormal THEN "normal"
  ELSE IF creditsCents > ThresholdLowCompute THEN "low_compute"
  ELSE IF creditsCents > ThresholdDead THEN "critical"
  ELSE "dead"

StateForTier_NoRecovery(tier, state) ==
  IF tier = "critical" THEN "critical"
  ELSE IF tier = "low_compute" THEN "low_compute"
  ELSE state

\* lines 168-183: the state the cycle stores for a tier other than dead;
\* for normal, "running" is written unless it is the state already
StateForTier(tier, state) ==
  IF tier = "critical" THEN "critical"
  ELSE IF tier = "low_compute" THEN "low_compute"
  ELSE IF state # "running" THEN "running" ELSE state

LowComputeForTier_CriticalOnly(tier) == tier = "critical"

\* lines 168-183: the argument of inference.setLowComputeMode
LowComputeForTier(tier) == tier \in {"critical", "low_compute"}

\* no getSurvivalTier call has been made
TierInit ==
  /\ tierArg = 0
  /\ tierResult = "none"

\* no sanitizeInput call has been made
SanInit ==
  /\ sanArg = [text |-> {}, from |-> 0]
  /\ sanResult = [threatLevel |-> "none"]

CallInit ==
  /\ TierInit
  /\ SanInit

\* credit balances the billing API may report
CreditLevels == {0, 5, 30, 100}

\* outcomes of agentClient.getCreditsBalance(): a value, or a rejection
BalanceResults ==
  {[ok |-> TRUE, value |-> c] : c \in CreditLevels} \cup {[ok |-> FALSE, value |-> 0]}

\* getFinancialState: creditsCents defaults to 0 and the error is recorded
\* when the balance call rejects
getFinancialState(r) ==
  IF r.ok THEN [creditsCents |-> r.value, creditsCheckError |-> FALSE]
  ELSE [creditsCents |-> 0, creditsCheckError |-> TRUE]

DeadTierOutcome_IgnoreCheckError(fin) == "dead"

\* what the loop does with tier dead: a failed check is transient
DeadTierOutcome(fin) ==
  IF fin.creditsCheckError THEN "transient" ELSE "dead"

\* ------------------------------------------------------------------------
\* Model responses and tools
\* ------------------------------------------------------------------------
\* a tool call of a response: argsOk is whether JSON.parse accepts the
\* argument string; duration is args.duration_seconds (None: not a number)
Call(name, argsOk, duration) == [name |-> name, argsOk |-> argsOk, duration |-> duration]

SleepCall(d) == Call("sleep", TRUE, d)
SleepBadArgs == Call("sleep", FALSE, None)
SleepNoDuration == Call("sleep", TRUE, None)
LowComputeCall == Call("enter_low_compute", TRUE, None)
ExecCall == Call("exec", TRUE, None)

Resp(calls, reason) == [toolCalls |-> calls, finishReason |-> reason]
NoResponse == Resp(<< >>, "none")

\* responses the inference collaborator may return
Responses ==
  { Resp(<< >>, "stop"),
    Resp(<< >>, "length"),
    Resp(<<ExecCall>>, "tool_calls"),
    Resp(<<SleepCall(60)>>, "tool_calls"),
    Resp(<<SleepNoDuration>>, "tool_calls"),
    Resp(<<SleepBadArgs, SleepCall(0)>>, "tool_calls"),
    Resp(<<SleepBadArgs, SleepCall(60), LowComputeCall>>, "tool_calls"),
    Resp(<<SleepCall(60), LowComputeCall>>, "stop") }

\* the entry of turn.toolCalls that a call leaves.  id is tc.id: the calls
\* of one response carry distinct ids, modelled as their positions in
\* response.toolCalls; result is "" or the tool's output "out"
Outcome(id, name, result, error) ==
  [id |-> id, name |-> name, result |-> result, error |-> error]

ParseFailureOutcome_NoError(id, name) == Outcome(id, name, "", FALSE)

\* lines 236-243: badArgResult, the entry recorded for a call whose
\* argument string JSON.parse rejects
ParseFailureOutcome(id, name) == Outcome(id, name, "", TRUE)

CapReached_OffByOne(n) == n > MAX_TOOL_CALLS_PER_TURN

\* line 222: callCount >= MAX_TOOL_CALLS_PER_TURN
CapReached(n) == n >= MAX_TOOL_CALLS_PER_TURN

\* turn.toolCalls.find((tc) => tc.name === "sleep"): index of the first
\* sleep entry, 0 when there is none
FirstSleepIdx(calls) ==
  LET S == {i \in 1..Len(calls) : calls[i].name = "sleep"}
  IN IF S = {} THEN 0 ELSE CHOOSE i \in S : \A j \in S : i <= j

\* sleepTool && !sleepTool.error
SleepToolSucceeded(calls) ==
  FirstSleepIdx(calls) # 0 /\ ~calls[FirstSleepIdx(calls)].error

IsIdleStop_Never(resp) == FALSE

\* no tool calls and finish reason "stop"
IsIdleStop(resp) ==
  Len(resp.toolCalls) = 0 /\ resp.finishReason = "stop"

SleepInFuture_Never(su, t) == FALSE

\* sleepUntil && new Date(sleepUntil) > new Date()
SleepInFuture(su, t) == su # None /\ su > t

TooManyErrors_OffByOne(n) == n > MAX_CONSECUTIVE_ERRORS

\* consecutiveErrors >= MAX_CONSECUTIVE_ERRORS
TooManyErrors(n) == n >= MAX_CONSECUTIVE_ERRORS

ErrorsAfterSuccess_Kept(n) == n

\* consecutiveErrors = 0 at the end of a cycle that did not throw
ErrorsAfterSuccess(n) == 0

\* ------------------------------------------------------------------------
\* runAgentLoop.  Each action is the code between two awaited calls; the
\* positions "top", "tools" and "persist" are reached and left without
\* yielding, so nothing else runs while the loop is there.
\* ------------------------------------------------------------------------
Alive == hostPc # "exited"

\* positions at which the loop is suspended in an awaited call
AwaitPcs == {"wakeFin", "fin", "chat", "toolwait"}

\* other tasks of the process (timers, heartbeat, signals) run only while
\* the loop is suspended or not running
LoopYielded == pc \in AwaitPcs \cup {"idle"}

\* lines 59-83: locals, state "waking", then the first balance check
LoopBegin ==
  /\ Alive /\ pc = "begin"
  /\ consecutiveErrors' = 0
  /\ running' = TRUE
  /\ inboxProcessedThisCycle' = 0
  /\ agentState' = "waking"
  /\ pc' = "wakeFin"
  /\ UNCHANGED <<now, sleepUntil, wakeRequest, inbox, inboxSeen, pendingInput,
                 currentInput, financial, lowComputeMode, response, turnCalls, tcIdx,
                 callCount, hostVars, obsVars, relayVars, executed, drainLog, sideVars, ghostVars>>

\* lines 83-102: the balance check returns, the wake-up prompt is built,
\* state "running", pendingInput is the wake-up prompt
LoopWake(r) ==
  /\ Alive /\ pc = "wakeFin"
  /\ financial' = getFinancialState(r)
  /\ finChecks' = finChecks + 1
  /\ agentState' = "running"
  /\ pendingInput' = "wakeup"
  /\ pc' = "top"
  /\ UNCHANGED <<now, sleepUntil, wakeRequest, inbox, inboxSeen, running,
                 consecutiveErrors, inboxProcessedThisCycle, currentInput,
                 lowComputeMode, response, turnCalls, tcIdx, callCount, hostVars,
                 exitPath, chatCalls, chatCallsInStreak, failsSinceOk, failedCycles,
                 sleepOk, turnsInserted, steps, relayVars, executed, drainLog, sideVars, ghostVars>>

\* lines 83-92: the balance check returns and db.getTurnCount or
\* buildWakeupPrompt throws: the rejection leaves runAgentLoop, outside the
\* cycle's try, with the state still "waking"
LoopStartupThrows(r) ==
  /\ Alive /\ pc = "wakeFin"
  /\ financial' = getFinancialState(r)
  /\ finChecks' = finChecks + 1
  /\ pc' = "threw"
  /\ UNCHANGED <<now, storeVars, running, consecutiveErrors, inboxProcessedThisCycle,
                 pendingInput, currentInput, lowComputeMode, response, turnCalls,
                 tcIdx, callCount, hostVars, exitPath, chatCalls, chatCallsInStreak,
                 failsSinceOk, failedCycles, turnsInserted, sleepOk, steps, relayVars, executed, drainLog, sideVars, ghostVars>>

\* lines 104-146: while (running), the sleep_until check, the inbox drain,
\* up to the balance check of the cycle
LoopTop ==
  /\ Alive /\ pc = "top"
  /\ IF ~running
     THEN \* the while condition fails
          /\ pc' = "done"
          /\ UNCHANGED <<sleepUntil, agentState, inbox, inboxProcessedThisCycle,
                         pendingInput, running, exitPath, steps, drainLog>>
     ELSE IF SleepInFuture(sleepUntil, now)
     THEN /\ running' = FALSE
          /\ exitPath' = "sleep_until"
          /\ pc' = "done"
          /\ UNCHANGED <<sleepUntil, agentState, inbox, inboxProcessedThisCycle,
                         pendingInput, steps, drainLog>>
     ELSE IF pendingInput = NoInput /\ inboxProcessedThisCycle >= MAX_INBOX_PER_CYCLE
     THEN /\ sleepUntil' = now + IdleSleepSecs
          /\ agentState' = "sleeping"
          /\ running' = FALSE
          /\ exitPath' = "inbox_budget"
          /\ pc' = "done"
          /\ UNCHANGED <<inbox, inboxProcessedThisCycle, pendingInput, steps, drainLog>>
     ELSE /\ steps < MaxSteps
          /\ steps' = steps + 1
          /\ LET ids == IF pendingInput = NoInput
                        THEN getUnprocessedInboxMessages(inbox, InboxDrainLimit)
                        ELSE << >>
             IN /\ inbox' = MarkAll(inbox, ids)
                /\ drainLog' = Sanitized(ids)
                /\ inboxProcessedThisCycle' = inboxProcessedThisCycle + Len(ids)
                /\ pendingInput' = IF Len(ids) > 0 THEN "agent" ELSE pendingInput
          /\ pc' = "fin"
          /\ UNCHANGED <<sleepUntil, agentState, running, exitPath>>
  /\ UNCHANGED <<now, wakeRequest, inboxSeen, consecutiveErrors, currentInput,
                 financial, lowComputeMode, response, turnCalls, tcIdx, callCount,
                 hostVars, chatCalls, chatCallsInStreak, failsSinceOk, failedCycles,
                 finChecks, sleepOk, turnsInserted, relayVars, executed, sideVars, ghostVars>>

\* lines 146-203: the balance check returns; tier dead ends the run (dead
\* when the check succeeded, a 60 s sleep when it failed); otherwise the
\* state and the low-compute flag follow the tier and inference.chat is
\* called
LoopFinancial(r) ==
  /\ Alive /\ pc = "fin"
  /\ LET fin == getFinancialState(r)
         tier == getSurvivalTier(fin.creditsCents)
     IN /\ financial' = fin
        /\ finChecks' = finChecks + 1
        /\ stateAtCheck' = IF tier = "dead" THEN "none" ELSE agentState
        /\ IF tier = "dead" /\ DeadTierOutcome(fin) = "transient"
           THEN /\ sleepUntil' = now + IdleSleepSecs
                /\ agentState' = "sleeping"
                /\ running' = FALSE
                /\ exitPath' = "credits_transient"
                /\ pc' = "done"
                /\ UNCHANGED <<lowComputeMode, currentInput, pendingInput, chatCalls,
                               chatCallsInStreak>>
           ELSE IF tier = "dead"
           THEN /\ agentState' = "dead"
                /\ running' = FALSE
                /\ exitPath' = "dead"
                /\ pc' = "done"
                /\ UNCHANGED <<sleepUntil, lowComputeMode, currentInput, pendingInput,
                               chatCalls, chatCallsInStreak>>
           ELSE /\ agentState' = StateForTier(tier, agentState)
                /\ lowComputeMode' = LowComputeForTier(tier)
                /\ currentInput' = pendingInput
                /\ pendingInput' = NoInput
                /\ chatCalls' = chatCalls + 1
                /\ chatCallsInStreak' = chatCallsInStreak + 1
                /\ pc' = "chat"
                /\ UNCHANGED <<sleepUntil, running, exitPath>>
  /\ UNCHANGED <<now, wakeRequest, inbox, inboxSeen, consecutiveErrors,
                 inboxProcessedThisCycle, response, turnCalls, tcIdx, callCount,
                 hostVars, failsSinceOk, failedCycles, sleepOk, turnsInserted, steps,
                 relayVars, executed, drainLog, sideVars>>

\* lines 203-219: inference.chat resolves; the turn is created
LoopChatReturns(resp) ==
  /\ Alive /\ pc = "chat"
  /\ stateAtCheck' = "none"
  /\ response' = resp
  /\ turnCalls' = << >>
  /\ tcIdx' = 1
  /\ callCount' = 0
  /\ executed' = << >>
  /\ pc' = "tools"
  /\ UNCHANGED <<now, storeVars, running, consecutiveErrors, inboxProcessedThisCycle,
                 pendingInput, currentInput, financial, lowComputeMode, hostVars,
                 obsVars, relayVars, drainLog, sideVars>>

\* lines 295-306: the cycle's catch counts the failure and after
\* MAX_CONSECUTIVE_ERRORS forces a 5-minute sleep
CycleCatch ==
  /\ consecutiveErrors' = consecutiveErrors + 1
  /\ failsSinceOk' = failsSinceOk + 1
  /\ failedCycles' = failedCycles + 1
  /\ IF TooManyErrors(consecutiveErrors + 1)
     THEN /\ agentState' = "sleeping"
          /\ sleepUntil' = now + FatalSleepSecs
          /\ running' = FALSE
          /\ exitPath' = "fatal"
     ELSE UNCHANGED <<agentState, sleepUntil, running, exitPath>>
  /\ pc' = "top"

\* inference.chat rejects
LoopChatThrows ==
  /\ Alive /\ pc = "chat"
  /\ stateAtCheck' = "none"
  /\ CycleCatch
  /\ UNCHANGED <<now, wakeRequest, inbox, inboxSeen, inboxProcessedThisCycle,
                 pendingInput, currentInput, financial, lowComputeMode, response,
                 turnCalls, tcIdx, callCount, hostVars, chatCalls, chatCallsInStreak,
                 finChecks, sleepOk, turnsInserted, steps, relayVars, executed, drainLog, sideVars>>

LoopToolStep_ExecutesMalformed ==
  /\ Alive /\ pc = "tools"
  /\ IF tcIdx > Len(response.toolCalls) \/ CapReached(callCount)
     THEN /\ pc' = "persist"
          /\ UNCHANGED <<turnCalls, tcIdx, callCount, executed>>
     ELSE /\ executed' = Append(executed, tcIdx)
          /\ pc' = "toolwait"
          /\ UNCHANGED <<turnCalls, tcIdx, callCount>>
  /\ UNCHANGED <<now, storeVars, running, consecutiveErrors, inboxProcessedThisCycle,
                 pendingInput, currentInput, financial, lowComputeMode, response,
                 hostVars, obsVars, relayVars, drainLog, sideVars, ghostVars>>

\* lines 221-251: the head of the for-loop over response.toolCalls: stop at
\* the cap, record a call whose arguments do not parse, else call the tool
LoopToolStep ==
  /\ Alive /\ pc = "tools"
  /\ IF tcIdx > Len(response.toolCalls) \/ CapReached(callCount)
     THEN /\ pc' = "persist"
          /\ UNCHANGED <<turnCalls, tcIdx, callCount, executed>>
     ELSE IF ~response.toolCalls[tcIdx].argsOk
     THEN /\ turnCalls' = Append(turnCalls,
                                 ParseFailureOutcome(tcIdx, response.toolCalls[tcIdx].name))
          /\ callCount' = callCount + 1
          /\ tcIdx' = tcIdx + 1
          /\ pc' = "tools"
          /\ UNCHANGED executed
     ELSE /\ executed' = Append(executed, tcIdx)
          /\ pc' = "toolwait"
          /\ UNCHANGED <<turnCalls, tcIdx, callCount>>
  /\ UNCHANGED <<now, storeVars, running, consecutiveErrors, inboxProcessedThisCycle,
                 pendingInput, currentInput, financial, lowComputeMode, response,
                 hostVars, obsVars, relayVars, drainLog, sideVars, ghostVars>>

\* lines 251-260 with executeTool and the tool's execute: the sleep tool
\* writes state "sleeping" and then sleep_until (which throws for a duration
\* that is not a number); enter_low_compute writes state "low_compute"; any
\* other tool succeeds or fails without touching this state
LoopToolReturns(execFails) ==
  /\ Alive /\ pc = "toolwait"
  /\ LET tc == response.toolCalls[tcIdx]
         failed == IF tc.name = "sleep" THEN tc.duration = None
                   ELSE IF tc.name = "enter_low_compute" THEN FALSE
                   ELSE execFails
     IN /\ agentState' = IF tc.name = "sleep" THEN "sleeping"
                         ELSE IF tc.name = "enter_low_compute" THEN "low_compute"
                         ELSE agentState
        /\ sleepUntil' = IF tc.name = "sleep" /\ tc.duration # None
                         THEN now + tc.duration ELSE sleepUntil
        /\ lowComputeMode' = IF tc.name = "enter_low_compute" THEN TRUE
                             ELSE lowComputeMode
        /\ sleepOk' = (sleepOk \/ (tc.name = "sleep" /\ ~failed))
        /\ turnCalls' = Append(turnCalls,
                              Outcome(tcIdx, tc.name, IF failed THEN "" ELSE "out", failed))
  /\ callCount' = callCount + 1
  /\ tcIdx' = tcIdx + 1
  /\ pc' = "tools"
  /\ UNCHANGED <<now, wakeRequest, inbox, inboxSeen, running, consecutiveErrors,
                 inboxProcessedThisCycle, pendingInput, currentInput, financial,
                 response, hostVars, exitPath, chatCalls, chatCallsInStreak,
                 failsSinceOk, failedCycles, finChecks, turnsInserted, steps, relayVars, executed, drainLog, sideVars, ghostVars>>

\* lines 264-294: the turn has been persisted; a successful sleep call ends
\* the run; a stop response without tool calls records a 60 s sleep; the
\* error counter is reset
AfterPersist ==
  /\ turnsInserted' = turnsInserted + 1
  /\ failsSinceOk' = 0
  /\ chatCallsInStreak' = 0
  /\ IF SleepToolSucceeded(turnCalls)
     THEN /\ agentState' = "sleeping"
          /\ running' = FALSE
          /\ exitPath' = "sleep_tool"
          /\ pc' = "done"
          /\ UNCHANGED <<sleepUntil, consecutiveErrors>>
     ELSE /\ IF IsIdleStop(response)
             THEN /\ sleepUntil' = now + IdleSleepSecs
                  /\ agentState' = "sleeping"
                  /\ running' = FALSE
                  /\ exitPath' = "idle"
             ELSE UNCHANGED <<sleepUntil, agentState, running, exitPath>>
          /\ consecutiveErrors' = ErrorsAfterSuccess(consecutiveErrors)
          /\ pc' = "top"

\* the rows the two tables hold after the first `written` INSERT statements
\* of lines 264-267 for a turn with the outcomes `calls`: insertTurn, then
\* one insertToolCall per outcome.  The turn's id is a fresh ulid.
TurnRow(id, calls) == [id |-> id, toolCalls |-> [i \in 1..Len(calls) |-> calls[i].id]]
TurnsAfter(rows, calls, written) ==
  IF written >= 1 THEN Append(rows, TurnRow(Len(rows) + 1, calls)) ELSE rows
ToolCallRowsAfter(rows, turnId, calls, written) ==
  rows \o [i \in 1..(IF written >= 1 THEN written - 1 ELSE 0) |->
             [turnId |-> turnId, id |-> calls[i].id]]

\* lines 264-294 with the statements of insertTurn and insertToolCall: of
\* the 1 + turn.toolCalls.length INSERT statements the first `written` run;
\* when one fails, its exception reaches the cycle's catch and the rows
\* written before it stay
LoopPersistRows(written) ==
  /\ Alive /\ pc = "persist"
  /\ written \in 0..(Len(turnCalls) + 1)
  /\ turns' = TurnsAfter(turns, turnCalls, written)
  /\ toolCallRows' = ToolCallRowsAfter(toolCallRows, Len(turns) + 1, turnCalls, written)
  /\ IF written = Len(turnCalls) + 1
     THEN AfterPersist /\ UNCHANGED failedCycles
     ELSE /\ CycleCatch
          /\ turnsInserted' = turnsInserted + (IF written >= 1 THEN 1 ELSE 0)
          /\ UNCHANGED chatCallsInStreak
  /\ UNCHANGED <<now, wakeRequest, inbox, inboxSeen, inboxProcessedThisCycle,
                 pendingInput, currentInput, financial, lowComputeMode, response,
                 turnCalls, tcIdx, callCount, hostVars, chatCalls,
                 finChecks, sleepOk, steps, relayVars, executed, drainLog,
                 hbVars, finVars, callVars, toolVars, ghostVars>>

\* lines 264-294 when every INSERT succeeds, the tables left aside
LoopPersist ==
  /\ Alive /\ pc = "persist"
  /\ AfterPersist
  /\ UNCHANGED <<now, wakeRequest, inbox, inboxSeen, inboxProcessedThisCycle,
                 pendingInput, currentInput, financial, lowComputeMode, response,
                 turnCalls, tcIdx, callCount, hostVars, chatCalls, failedCycles,
                 finChecks, sleepOk, steps, relayVars, executed, drainLog, sideVars, ghostVars>>

\* ------------------------------------------------------------------------
\* Heartbeat daemon: entries, schedules and executeTask
\* ------------------------------------------------------------------------
\* the handlers registered in BUILTIN_TASKS
BUILTIN_TASKS == {"heartbeat_ping", "check_credits", "check_usdc_balance",
                  "check_sol_balance", "check_social_inbox", "check_for_updates",
                  "health_check"}

\* const essentialTasks of tick
essentialTasks == {"heartbeat_ping", "check_credits", "check_usdc_balance",
                   "check_social_inbox"}

\* a row of heartbeat_entries that has never run; period is the cron
\* schedule's period in minutes (0: no schedule)
Entry(name, task, enabled, period) ==
  [name |-> name, task |-> task, enabled |-> enabled, period |-> period,
   lastRun |-> None]

\* the configured entries, in the order getHeartbeatEntries returns them
HeartbeatEntries ==
  << Entry("heartbeat_ping", "heartbeat_ping", TRUE, 1),
     Entry("check_for_updates", "check_for_updates", TRUE, 2),
     Entry("check_social_inbox", "check_social_inbox", TRUE, 1),
     Entry("health_check", "health_check", FALSE, 1) >>

\* cronParser ... interval.next(): the first schedule boundary after lastRun
nextRun(lastRun, period) == ((lastRun \div period) + 1) * period

\* isDue(entry) at time t; an entry that never ran counts as last run a day
\* ago, so it is due
isDue(entry, t) ==
  /\ entry.enabled
  /\ entry.period > 0
  /\ (entry.lastRun = None \/ nextRun(entry.lastRun, entry.period) <= t)

\* tier === "low_compute" || tier === "critical" || tier === "dead"
IsLowTier(creditsCents) ==
  getSurvivalTier(creditsCents) \in {"low_compute", "critical", "dead"}

\* what a handler call ends in: it resolves without or with shouldWake, or
\* it throws
HandlerOutcomes == {"ok", "wake", "throws"}

executeTask_StampsFailures(entries, i, outcome, t) ==
  IF entries[i].task \notin BUILTIN_TASKS THEN entries
  ELSE [entries EXCEPT ![i].lastRun = t]

\* executeTask(entry), the store's side: an unknown task is skipped; the
\* last-run time is written after the handler resolved, not when it threw
executeTask(entries, i, outcome, t) ==
  IF entries[i].task \notin BUILTIN_TASKS THEN entries
  ELSE IF outcome = "throws" THEN entries
  ELSE [entries EXCEPT ![i].lastRun = t]

NoHandlerCall == [name |-> "none", task |-> "none", outcome |-> "none",
                  via |-> "none", low |-> FALSE]

\* the heartbeat's variables when heartbeat.start() has been called and its
\* immediate first tick has not begun
HbInit ==
  /\ hbEntries = HeartbeatEntries
  /\ hbPos = 0
  /\ hbLow = FALSE
  /\ hbCredits = 100
  /\ hbTicks = 0
  /\ hbLast = NoHandlerCall
  /\ hbThrew = {}
  /\ hbForced = 0

\* a tick or forceRun call in flight; stale is an observation: the handler
\* it awaits was started while the stored last-run time said not due
Run(via, snap, low, pos, stale) ==
  [via |-> via, snap |-> snap, low |-> low, pos |-> pos, stale |-> stale]

\* no transfer tool has been called
NoTransfer == [tool |-> "none", balance |-> 0, amount |-> 0, outcome |-> "none"]

\* tables children and transactions are empty, the account holds no credits
ReplInit ==
  /\ children = << >>
  /\ creditsBalance = 0
  /\ transactions = << >>
  /\ lastTransfer = NoTransfer

\* the host has called heartbeat.start(): running is set, the first tick
\* has read the entries and awaits the balance, and the interval timer is set
DaemonInit ==
  /\ activeTimers = 1
  /\ inFlight = SetToBag({Run("first", HeartbeatEntries, FALSE, 0, FALSE)})
  /\ hbClock = 0
  /\ daemonCalls = 0

\* ------------------------------------------------------------------------
\* Balance checks: getFinancialState of the loop and checkResources of the
\* survival monitor, over the outcomes of their collaborator calls
\* ------------------------------------------------------------------------
\* outcomes of the RPC requests behind the stable-token and the fee-token
\* balance: a value, or a failure
RpcResults == {[ok |-> TRUE, value |-> 0], [ok |-> TRUE, value |-> 5],
               [ok |-> FALSE, value |-> 0]}

\* outcomes of the sandbox probe exec("echo ok")
ProbeResults == {"exit0", "exit1", "throws"}

\* outcomes of one round of collaborator calls
FetchOutcomes ==
  [credits : BalanceResults, usdc : RpcResults, sol : RpcResults, probe : ProbeResults]

\* getUsdcBalance: getUsdcBalanceDetailed catches the RPC failure and
\* reports balance 0, which getUsdcBalance returns
getUsdcBalance(rpc) ==
  IF rpc.ok THEN [ok |-> TRUE, value |-> rpc.value] ELSE [ok |-> TRUE, value |-> 0]

\* getSolBalance: catch { return 0 }
getSolBalance(rpc) ==
  IF rpc.ok THEN [ok |-> TRUE, value |-> rpc.value] ELSE [ok |-> TRUE, value |-> 0]

\* the FinancialState both functions build: three fetches, each in its own
\* try/catch; a rejected fetch leaves the value 0 and sets its error
FinancialStateOf(f) ==
  LET c == f.credits
      u == getUsdcBalance(f.usdc)
      s == getSolBalance(f.sol)
  IN [creditsCents |-> IF c.ok THEN c.value ELSE 0,
      usdcBalance |-> IF u.ok THEN u.value ELSE 0,
      solBalance |-> IF s.ok THEN s.value ELSE 0,
      creditsCheckError |-> ~c.ok,
      usdcCheckError |-> ~u.ok,
      solCheckError |-> ~s.ok]

\* checkResources: the financial state, the sandbox probe and the tier
\* against the stored current_tier
checkResources(f, prev) ==
  LET fin == FinancialStateOf(f)
      tier == getSurvivalTier(fin.creditsCents)
  IN [financial |-> fin,
      tier |-> tier,
      previousTier |-> prev,
      tierChanged |-> (prev # "none" /\ prev # tier),
      sandboxHealthy |-> (f.probe = "exit0")]

NoFetch == [credits |-> [ok |-> TRUE, value |-> 0], usdc |-> [ok |-> TRUE, value |-> 0],
            sol |-> [ok |-> TRUE, value |-> 0], probe |-> "exit0"]

\* no balance check has been made
FinInit ==
  /\ fetched = NoFetch
  /\ finResult = [kind |-> "none"]
  /\ currentTier = "none"

\* ------------------------------------------------------------------------
\* Tools: exec, write_file, edit_own_file and install_npm_package
\* ------------------------------------------------------------------------
\* one operation of a collaborator or of the store made by a tool
Op(op, target, arg) == [op |-> op, target |-> target, arg |-> arg]

NoToolCall == [name |-> "none", target |-> "", arg |-> 0]

\* what a tool's execute returns: the kind of text, and for a refused edit
\* the reason and the per-check breakdown the text carries
Result(kind, reason, checks) == [kind |-> kind, reason |-> reason, checks |-> checks]
Plain(kind) == Result(kind, "", << >>)

\* no tool has been called
ToolInit ==
  /\ toolCall = NoToolCall
  /\ toolResult = Plain("none")
  /\ ops = << >>
  /\ modifications = << >>
  /\ selfChanges = << >>

\* the timeout argument of an exec call as JavaScript sees it: a finite
\* number, a number that is not finite, or no number at all
FiniteTimeouts == {0 - 1, 0, 1, 999, 1000, 1001, 10000, 30000, 299999, 300000, 300001,
                   999999}
RawTimeouts ==
  {[kind |-> "number", value |-> v] : v \in FiniteTimeouts}
    \cup {[kind |-> k, value |-> 0] : k \in {"undefined", "NaN", "Infinity", "-Infinity",
                                              "string"}}

\* typeof rawTimeout === "number"
IsNumber(raw) == raw.kind \in {"number", "NaN", "Infinity", "-Infinity"}
\* Number.isFinite(rawTimeout)
IsFinite(raw) == raw.kind = "number"

execTimeout_NoFloor(raw) ==
  IF IsNumber(raw) /\ IsFinite(raw) /\ raw.value > 0
  THEN Min(raw.value, EXEC_MAX_TIMEOUT_MS)
  ELSE EXEC_DEFAULT_TIMEOUT_MS

\* const timeout of the exec tool
execTimeout(raw) ==
  IF IsNumber(raw) /\ IsFinite(raw) /\ raw.value >= EXEC_MIN_TIMEOUT_MS
  THEN Min(raw.value, EXEC_MAX_TIMEOUT_MS)
  ELSE EXEC_DEFAULT_TIMEOUT_MS

\* commands the agent may ask for; those of ForbiddenCommands match one of
\* FORBIDDEN_COMMAND_PATTERNS
Commands == {"ls", "npm test", "rm -rf state.db", "cat wallet.json"}
ForbiddenCommands == {"rm -rf state.db", "cat wallet.json"}
isForbiddenCommand(command) == command \in ForbiddenCommands

\* the exec tool: what it returns and the operations it makes
execTool(command, raw) ==
  IF isForbiddenCommand(command)
  THEN [result |-> Plain("Blocked"), ops |-> << >>]
  ELSE [result |-> Plain("exit_code"), ops |-> <<Op("exec", command, execTimeout(raw))>>]

\* a path is the sequence of its segments between the slashes: the first
\* segment is "" for an absolute path and "." for one written ./relative
DirNames == {"tmp", ".ssh", "state.db", "agent"}
FileNames == {"wallet.json", "state.db", "constitution.md", "output.txt", "index.js"}
PathPrefixes == {<< >>, <<".">>, <<"">>}
Paths ==
  {pre \o dirs \o <<file>> :
     pre \in PathPrefixes,
     dirs \in UNION {[1..n -> DirNames] : n \in 0..MaxPathDepth},
     file \in FileNames}

\* the path's file name and the names of its directories
FileOf(path) == path[Len(path)]
DirsOf(path) == {path[i] : i \in 1..(Len(path) - 1)}

\* the protected file names and directories among these
ProtectedFiles == {"wallet.json", "state.db", "constitution.md"}
ProtectedDirs == {".ssh"}

\* isProtectedFile: matching on path boundaries; the last segment is the
\* file, the segments before it its directories
isProtectedFile(path) ==
  \/ path[Len(path)] \in ProtectedFiles
  \/ \E i \in 1..(Len(path) - 1) : path[i] \in ProtectedDirs

writeFileTool_WritesAnyway(path) ==
  IF isProtectedFile(path)
  THEN [result |-> Plain("Blocked"), ops |-> <<Op("writeFile", path, 0)>>]
  ELSE [result |-> Plain("File written"), ops |-> <<Op("writeFile", path, 0)>>]

\* the write_file tool
writeFileTool(path) ==
  IF isProtectedFile(path)
  THEN [result |-> Plain("Blocked"), ops |-> << >>]
  ELSE [result |-> Plain("File written"), ops |-> <<Op("writeFile", path, 0)>>]

\* the checks of the self-modification gate, in the order of the list in
\* editFile's description; the first is decided by isProtectedFile, the
\* outcome of each other one is an input
CheckNames == <<"protected_file", "blocked_directory", "path_traversal", "rate_limit",
                "size_limit">>
OtherChecks == {CheckNames[i] : i \in 2..Len(CheckNames)}

\* validateModification: every check is evaluated and reported; the edit is
\* allowed when all pass, else the reason is the first check that failed.
\* failing: the checks other than the first that fail for this edit
validateModification(path, failing) ==
  LET checks == [i \in 1..Len(CheckNames) |->
                   [name |-> CheckNames[i],
                    passed |-> IF i = 1 THEN ~isProtectedFile(path)
                               ELSE CheckNames[i] \notin failing]]
      failed == {i \in 1..Len(CheckNames) : ~checks[i].passed}
  IN [allowed |-> failed = {},
      reason |-> IF failed = {} THEN "ok"
                 ELSE CheckNames[CHOOSE i \in failed : \A j \in failed : i <= j],
      checks |-> checks]

\* what the versioning and file collaborators do during an edit
EditOutcomes == {"ok", "commit_fails", "write_fails"}

\* editFile once the checks have passed: snapshot commit, write, audit
\* entry; a failing step ends the edit with success = false
editFile(path, outcome) ==
  IF outcome = "commit_fails"
  THEN [success |-> FALSE, ops |-> <<Op("commit", path, 0)>>]
  ELSE IF outcome = "write_fails"
  THEN [success |-> FALSE, ops |-> <<Op("commit", path, 0), Op("writeFile", path, 0)>>]
  ELSE [success |-> TRUE,
        ops |-> <<Op("commit", path, 0), Op("writeFile", path, 0),
                  Op("insertModification", path, 0)>>]

editOwnFileTool_SkipsValidation(path, failing, outcome) ==
  LET r == editFile(path, outcome)
  IN [result |-> IF r.success THEN Plain("File edited") ELSE Plain("error"),
      ops |-> r.ops]

\* the edit_own_file tool: validateModification, and editFile only when the
\* edit is allowed
editOwnFileTool(path, failing, outcome) ==
  LET validation == validateModification(path, failing)
      r == editFile(path, outcome)
  IN IF ~validation.allowed
     THEN [result |-> Result("BLOCKED", validation.reason, validation.checks),
           ops |-> << >>]
     ELSE [result |-> IF r.success THEN Plain("File edited") ELSE Plain("error"),
           ops |-> r.ops]

\* outcomes of exec("npm install -g <pkg>"): an exit code, or a rejection
InstallOutcomes == {"exit0", "exit1", "throws"}

\* the install_npm_package tool: exec, then insertModification whatever
\* the exit code, then the text by exit code; a rejected exec leaves the
\* tool at once
installNpmPackageTool(pkg, outcome) ==
  IF outcome = "throws"
  THEN [result |-> Plain("error"), ops |-> <<Op("exec", pkg, INSTALL_TIMEOUT_MS)>>]
  ELSE [result |-> IF outcome = "exit0" THEN Plain("Installed")
                   ELSE Plain("Failed to install"),
        ops |-> <<Op("exec", pkg, INSTALL_TIMEOUT_MS), Op("insertModification", pkg, 0)>>]

\* the rows a tool call adds to the modifications table
EntriesOf(call, type) ==
  LET ins == SelectSeq(call.ops, LAMBDA o : o.op = "insertModification")
  IN [i \in 1..Len(ins) |-> [type |-> type, target |-> ins[i].target]]

\* the call handed a file to the file-write collaborator
Wrote(call) == \E i \in 1..Len(call.ops) : call.ops[i].op = "writeFile"

\* the directory "agent" holds the agent's own code and configuration
IsAgentFile(path) == "agent" \in DirsOf(path)

\* ------------------------------------------------------------------------
\* Inbox specification: the store under arbitrary insert / mark sequences
\* ------------------------------------------------------------------------
NoOp == [kind |-> "none", msg |-> [id |-> None, from |-> None, createdAt |-> None],
         freed |-> FALSE]

\* the loop, host and observation variables before the first invocation
RestInit ==
  /\ agentState = "setup"
  /\ sleepUntil = None
  /\ turnsInserted = 0
  /\ pc = "idle"
  /\ running = FALSE
  /\ consecutiveErrors = 0
  /\ inboxProcessedThisCycle = 0
  /\ pendingInput = NoInput
  /\ currentInput = NoInput
  /\ financial = [creditsCents |-> 0, creditsCheckError |-> FALSE]
  /\ lowComputeMode = FALSE
  /\ response = NoResponse
  /\ turnCalls = << >>
  /\ tcIdx = 1
  /\ callCount = 0
  /\ hostPc = "ready"
  /\ hostErrors = 0
  /\ hostTimer = 0
  /\ sleepMs = 0
  /\ slept = 0
  /\ hbRunning = TRUE
  /\ exitPath = "none"
  /\ chatCalls = 0
  /\ chatCallsInStreak = 0
  /\ failsSinceOk = 0
  /\ failedCycles = 0
  /\ finChecks = 0
  /\ sleepOk = FALSE
  /\ steps = 0
  /\ executed = << >>
  /\ drainLog = << >>
  /\ HbInit
  /\ DaemonInit
  /\ ReplInit
  /\ FinInit
  /\ CallInit
  /\ stateAtCheck = "none"
  /\ turns = << >>
  /\ toolCallRows = << >>
  /\ ToolInit

\* the store is empty
StoreInit ==
  /\ now = 0
  /\ inbox = << >>
  /\ inboxSeen = {}
  /\ wakeRequest = FALSE
  /\ nextId = 1
  /\ inboxOps = 0
  /\ lastOp = NoOp
  /\ RestInit

InboxInit ==
  /\ StoreInit
  /\ hostVariant = "index"

\* one call of db.insertInboxMessage(msg) by any caller
InsertInbox(from, id) ==
  /\ inboxOps < MaxInboxOps
  /\ LET msg == [id |-> id, from |-> from, createdAt |-> None]
     IN /\ inbox' = insertInboxMessage(inbox, msg, now)
        /\ lastOp' = [kind |-> "insert", msg |-> msg,
                      freed |-> lastOp.kind = "mark" /\ lastOp.freed]
  /\ nextId' = IF id = nextId THEN nextId + 1 ELSE nextId
  /\ inboxOps' = inboxOps + 1
  /\ UNCHANGED <<now, inboxSeen, wakeRequest, nonInboxVars>>

\* one call of db.markInboxMessageProcessed(id)
MarkProcessed(id) ==
  /\ inboxOps < MaxInboxOps
  /\ inbox' = markInboxMessageProcessed(inbox, id)
  /\ lastOp' = [kind |-> "mark", msg |-> [id |-> id, from |-> None, createdAt |-> None],
                freed |-> /\ UnprocessedCount(inbox) = INBOX_GLOBAL_LIMIT
                          /\ UnprocessedCount(inbox') < INBOX_GLOBAL_LIMIT]
  /\ inboxOps' = inboxOps + 1
  /\ UNCHANGED <<now, inboxSeen, wakeRequest, nextId, nonInboxVars>>

\* one run of the check_social_inbox task through executeTask: the polled
\* batch is inserted, and a wake request is written when anything was new
CheckSocialInbox(k, n) ==
  /\ inboxOps < MaxInboxOps
  /\ LET r == PollFold([box |-> inbox, seen |-> inboxSeen, newCount |-> 0],
                         PolledBatch(k, n, nextId), 1, n, now)
     IN /\ inbox' = r.box
        /\ inboxSeen' = r.seen
        /\ wakeRequest' = (wakeRequest \/ r.newCount > 0)
  /\ nextId' = nextId + n
  /\ lastOp' = [NoOp EXCEPT !.kind = "poll"]
  /\ inboxOps' = inboxOps + 1
  /\ UNCHANGED <<now, nonInboxVars>>

\* ids the explored mark operations name: the oldest unprocessed row, the
\* newest row, the first row, and an id that does not exist
MarkCandidates ==
  {nextId} \cup (IF inbox = << >> THEN {}
                ELSE {FirstUnprocessedId(inbox), inbox[Len(inbox)].id, inbox[1].id} \ {None})

\* senders of the explored single inserts
InsertSenders == {1, NumSenders}

InboxNext ==
  \/ \E from \in InsertSenders, id \in {nextId, 1} : InsertInbox(from, id)
  \/ \E id \in MarkCandidates : MarkProcessed(id)
  \/ \E b \in {<<1, SmallPoll>>, <<NumSenders, LargePoll>>} : CheckSocialInbox(b[1], b[2])

SpecInbox == InboxInit /\ [][InboxNext]_vars

\* ------------------------------------------------------------------------
\* Host process: the run loop around runAgentLoop.  Two host sources exist:
\* "index" retries a rejected runAgentLoop after 30 s for ever; "runtime"
\* counts consecutive rejections, backs off exponentially and gives up
\* after HOST_MAX_CONSECUTIVE_ERRORS.
\* ------------------------------------------------------------------------
HostVariants == {"index", "runtime"}
HostWaits == {"deadWait", "sleepWait", "retryWait"}

RECURSIVE Pow2(_)
Pow2(n) == IF n <= 0 THEN 1 ELSE 2 * Pow2(n - 1)

\* Math.min(BASE_RETRY_DELAY_MS * 2 ** (consecutiveErrors - 1), MAX_RETRY_DELAY_MS)
retryDelay(n) == Min(BASE_RETRY_DELAY_SECS * Pow2(n - 1), MAX_RETRY_DELAY_SECS)

checkInterval_WholeSleep(ms) == ms

\* Math.min(sleepMs, 30_000)
checkInterval(ms) == Min(ms, HostCheckIntervalSecs)

\* runAgentLoop has settled: its locals are gone, and what was observed of
\* the invocation is forgotten
LoopSettled ==
  /\ pc' = "idle"
  /\ running' = FALSE
  /\ consecutiveErrors' = 0
  /\ inboxProcessedThisCycle' = 0
  /\ pendingInput' = NoInput
  /\ currentInput' = NoInput
  /\ financial' = [creditsCents |-> 0, creditsCheckError |-> FALSE]
  /\ response' = NoResponse
  /\ turnCalls' = << >>
  /\ tcIdx' = 1
  /\ callCount' = 0
  /\ exitPath' = "none"
  /\ chatCalls' = 0
  /\ chatCallsInStreak' = 0
  /\ failsSinceOk' = 0
  /\ failedCycles' = 0
  /\ finChecks' = 0
  /\ turnsInserted' = 0
  /\ sleepOk' = FALSE
  /\ executed' = << >>
  /\ drainLog' = << >>
  /\ stateAtCheck' = "none"
  /\ UNCHANGED <<lowComputeMode, steps>>

\* the host calls runAgentLoop, which runs up to its first awaited call
HostInvoke ==
  /\ Alive /\ hostPc = "ready" /\ pc = "idle"
  /\ steps < MaxSteps
  /\ steps' = steps + 1
  /\ hostPc' = "inLoop"
  /\ pc' = "begin"
  /\ UNCHANGED <<now, storeVars, exitPath, chatCalls, chatCallsInStreak, failsSinceOk,
                 failedCycles, finChecks, sleepOk, turnsInserted, running, consecutiveErrors,
                 inboxProcessedThisCycle,
                 pendingInput, currentInput, financial, lowComputeMode, response,
                 turnCalls, tcIdx, callCount, hostVariant, hostErrors, hostTimer,
                 sleepMs, slept, hbRunning, relayVars, executed, drainLog, sideVars, ghostVars>>

\* runAgentLoop resolved: the host reads the state and waits accordingly
HostAfterLoop ==
  /\ Alive /\ hostPc = "inLoop" /\ pc = "done"
  /\ LoopSettled
  /\ hostErrors' = IF hostVariant = "runtime" THEN 0 ELSE hostErrors
  /\ IF agentState = "dead"
     THEN /\ hostPc' = "deadWait"
          /\ hostTimer' = now + HostDeadWaitSecs
          /\ UNCHANGED <<sleepMs, slept>>
     ELSE IF agentState = "sleeping"
     THEN LET until == IF sleepUntil # None THEN sleepUntil
                       ELSE now + HostDefaultSleepSecs
              ms == Max(until - now, HostMinSleepSecs)
          IN /\ sleepMs' = ms
             /\ slept' = 0
             /\ hostPc' = "sleepWait"
             /\ hostTimer' = now + checkInterval(ms)
     ELSE /\ hostPc' = "ready"
          /\ UNCHANGED <<hostTimer, sleepMs, slept>>
  /\ UNCHANGED <<now, storeVars, hostVariant, hbRunning, relayVars, sideVars>>

\* one sleep(checkInterval) of the sleep wait resolved
HostSleepCheck ==
  /\ Alive /\ hostPc = "sleepWait" /\ now >= hostTimer
  /\ IF wakeRequest
     THEN /\ wakeRequest' = FALSE
          /\ sleepUntil' = None
          /\ hostPc' = "ready"
          /\ hostTimer' = 0 /\ sleepMs' = 0 /\ slept' = 0
     ELSE IF slept + checkInterval(sleepMs) >= sleepMs
     THEN /\ sleepUntil' = None
          /\ hostPc' = "ready"
          /\ hostTimer' = 0 /\ sleepMs' = 0 /\ slept' = 0
          /\ UNCHANGED wakeRequest
     ELSE /\ slept' = slept + checkInterval(sleepMs)
          /\ hostTimer' = now + checkInterval(sleepMs)
          /\ UNCHANGED <<wakeRequest, sleepUntil, hostPc, sleepMs>>
  /\ UNCHANGED <<now, agentState, inbox, inboxSeen, loopVars, hostVariant,
                 hostErrors, hbRunning, obsVars, relayVars, executed, drainLog, sideVars, ghostVars>>

\* the 5-minute wait of the dead branch resolved
HostDeadWake ==
  /\ Alive /\ hostPc = "deadWait" /\ now >= hostTimer
  /\ hostPc' = "ready"
  /\ hostTimer' = 0
  /\ UNCHANGED <<now, storeVars, loopVars, hostVariant, hostErrors, sleepMs, slept,
                 hbRunning, obsVars, relayVars, executed, drainLog, sideVars, ghostVars>>

\* runAgentLoop rejected: the catch block of the run loop
HostCatch ==
  /\ Alive /\ hostPc = "inLoop" /\ pc = "threw"
  /\ LoopSettled
  /\ IF hostVariant = "index"
     THEN /\ hostTimer' = now + HostRetrySecs
          /\ hostPc' = "retryWait"
          /\ UNCHANGED <<hostErrors, hbRunning, agentState>>
     ELSE /\ hostErrors' = hostErrors + 1
          /\ IF hostErrors + 1 >= HOST_MAX_CONSECUTIVE_ERRORS
             THEN /\ hbRunning' = FALSE
                  /\ agentState' = "dead"
                  /\ hostPc' = "exited"
                  /\ UNCHANGED hostTimer
             ELSE /\ hostTimer' = now + retryDelay(hostErrors + 1)
                  /\ hostPc' = "retryWait"
                  /\ UNCHANGED <<hbRunning, agentState>>
  /\ UNCHANGED <<now, sleepUntil, wakeRequest, inbox, inboxSeen, hostVariant, sleepMs,
                 slept, relayVars, sideVars>>

\* the retry wait resolved
HostRetryWake ==
  /\ Alive /\ hostPc = "retryWait" /\ now >= hostTimer
  /\ hostPc' = "ready"
  /\ hostTimer' = 0
  /\ UNCHANGED <<now, storeVars, loopVars, hostVariant, hostErrors, sleepMs, slept,
                 hbRunning, obsVars, relayVars, executed, drainLog, sideVars, ghostVars>>

\* SIGTERM / SIGINT: the shutdown handler
HostShutdown ==
  /\ Alive /\ LoopYielded
  /\ hbRunning' = FALSE
  /\ agentState' = "sleeping"
  /\ hostPc' = "exited"
  /\ UNCHANGED <<now, sleepUntil, wakeRequest, inbox, inboxSeen, loopVars,
                 hostVariant, hostErrors, hostTimer, sleepMs, slept, obsVars,
                 relayVars, executed, drainLog, sideVars, ghostVars>>

\* ------------------------------------------------------------------------
\* Environment: time and the heartbeat
\* ------------------------------------------------------------------------
\* a stored time seen d seconds later, with the clock's origin moved to the
\* new instant; a time that has passed stays "not in the future"
Later(t, d) == IF t = None THEN None ELSE Max(t - d, 0)

\* nothing is runnable until the host's timer: that much time passes.  Times
\* are only ever compared with the current instant, so the clock's origin
\* moves along with it: now stays put and the stored times come closer.
Tick ==
  /\ Alive /\ hostPc \in HostWaits /\ now < hostTimer
  /\ sleepUntil' = Later(sleepUntil, hostTimer - now)
  /\ hostTimer' = Later(hostTimer, hostTimer - now)
  /\ UNCHANGED <<now, agentState, wakeRequest, inbox, inboxSeen, loopVars,
                 hostVariant, hostPc, hostErrors, sleepMs, slept, hbRunning, obsVars,
                 relayVars, executed, drainLog, sideVars, ghostVars>>

\* a heartbeat task reports shouldWake: onWakeRequest writes wake_request.
\* Only the host's sleep wait reads the key, so a request raised while the
\* loop runs is the same as one raised once the host waits.
HeartbeatWake ==
  /\ Alive /\ hbRunning /\ hostPc \in HostWaits /\ ~wakeRequest
  /\ wakeRequest' = TRUE
  /\ UNCHANGED <<now, agentState, sleepUntil, inbox, inboxSeen, loopVars,
                 hostVars, obsVars, relayVars, executed, drainLog, sideVars, ghostVars>>

\* the heartbeat runs check_social_inbox with a small batch from one sender.
\* The loop reads the inbox only at the top of a cycle, so a poll between two
\* cycles is taken at the model call, and one between invocations while idle.
HeartbeatPoll ==
  /\ Alive /\ hbRunning /\ pc \in {"idle", "chat"}
  /\ inboxOps < MaxLoopPolls
  /\ CheckSocialInbox(1, MaxLoopMsgs)

\* ------------------------------------------------------------------------
\* The runtime
\* ------------------------------------------------------------------------
Init ==
  /\ StoreInit
  /\ hostVariant \in HostVariants

Next ==
  \/ HostInvoke
  \/ LoopBegin
  \/ \E r \in BalanceResults : LoopWake(r)
  \/ \E r \in BalanceResults : LoopStartupThrows(r)
  \/ LoopTop
  \/ \E r \in BalanceResults : LoopFinancial(r)
  \/ \E resp \in Responses : LoopChatReturns(resp)
  \/ LoopChatThrows
  \/ LoopToolStep
  \/ \E execFails \in BOOLEAN : LoopToolReturns(execFails)
  \/ LoopPersist
  \/ HostAfterLoop
  \/ HostSleepCheck
  \/ HostDeadWake
  \/ HostCatch
  \/ HostRetryWake
  \/ HostShutdown
  \/ Tick
  \/ HeartbeatWake
  \/ HeartbeatPoll

Spec == Init /\ [][Next]_vars

\* ------------------------------------------------------------------------
\* Claims about the inbox admission policy (checked under SpecInbox)
\* ------------------------------------------------------------------------

\* C3: after any sequence of insertInboxMessage and markInboxMessageProcessed
\* operations, at most 100 messages are unprocessed in total and at most 10
\* from every single sender.
C3_InboxCapsHold ==
  /\ UnprocessedCount(inbox) <= INBOX_GLOBAL_LIMIT
  /\ \A s \in Senders : SenderUnprocessedCount(inbox, s) <= INBOX_PER_SENDER_LIMIT

\* C3 witness: the queue is full, a sender is at its own cap, and the insert
\* that was just attempted was dropped.
C3_Witness ==
  /\ lastOp.kind = "insert"
  /\ ~HasId(inbox, lastOp.msg.id)
  /\ UnprocessedCount(inbox) = INBOX_GLOBAL_LIMIT
  /\ \E s \in Senders : SenderUnprocessedCount(inbox, s) = INBOX_PER_SENDER_LIMIT

\* the admission condition as the specification words it
UnderBothCaps(box, from) ==
  /\ UnprocessedCount(box) < 100
  /\ SenderUnprocessedCount(box, from) < 10

\* box2 is box with one more row, unprocessed, carrying the id
AdmittedAs(box, box2, id) ==
  /\ Len(box2) = Len(box) + 1
  /\ SubSeq(box2, 1, Len(box)) = box
  /\ box2[Len(box2)].id = id
  /\ ~box2[Len(box2)].processed

\* C4: an insert of a message with a new id is admitted exactly when fewer
\* than 100 messages are unprocessed in total and fewer than 10 from its
\* sender; otherwise the store is left unchanged. An insert that directly
\* follows a mark that took the queue below the global cap is admitted when
\* its sender is under its own cap.
C4_InsertAdmitsExactlyUnderCaps ==
  [][(lastOp'.kind = "insert" /\ inboxOps' = inboxOps + 1 /\ ~HasId(inbox, lastOp'.msg.id))
       => LET m == lastOp'.msg
          IN /\ UnderBothCaps(inbox, m.from) => AdmittedAs(inbox, inbox', m.id)
             /\ ~UnderBothCaps(inbox, m.from) => inbox' = inbox
             /\ (lastOp'.freed /\ SenderUnprocessedCount(inbox, m.from) < 10)
                  => AdmittedAs(inbox, inbox', m.id)]_vars

\* C4 witness: the queue was full, one message was marked processed, and the
\* very next insert was admitted, bringing the queue back to the cap.
C4_Witness ==
  /\ lastOp.kind = "insert"
  /\ lastOp.freed
  /\ HasId(inbox, lastOp.msg.id)
  /\ UnprocessedCount(inbox) = INBOX_GLOBAL_LIMIT

\* every unprocessed row of box comes from sender s
OnlySender(box, s) ==
  \A i \in 1..Len(box) : ~box[i].processed => box[i].from = s

\* C5: when all unprocessed messages come from one sender S, an insert (new
\* id) from any other sender T is admitted, however many inserts S attempted.
C5_OtherSenderNotStarved ==
  \A S \in Senders, T \in Senders :
    (S # T /\ OnlySender(inbox, S))
      => LET after == insertInboxMessage(inbox,
                        [id |-> nextId, from |-> T, createdAt |-> None], now)
         IN /\ AdmittedAs(inbox, after, nextId)
            /\ SenderUnprocessedCount(after, T) = 1
            /\ SenderUnprocessedCount(after, S) = SenderUnprocessedCount(inbox, S)

\* C5 witness: sender 1 attempted more inserts than its cap and holds 10
\* unprocessed messages; the insert of another sender was admitted after it.
C5_Witness ==
  /\ lastOp.kind = "insert"
  /\ lastOp.msg.from # 1
  /\ HasId(inbox, lastOp.msg.id)
  /\ nextId > INBOX_PER_SENDER_LIMIT + 2
  /\ SenderUnprocessedCount(inbox, 1) = INBOX_PER_SENDER_LIMIT
  /\ UnprocessedCount(inbox) = INBOX_PER_SENDER_LIMIT + 1

\* ------------------------------------------------------------------------
\* Claims about the control loop and its host (checked under Spec)
\* ------------------------------------------------------------------------

\* C1: the persisted state becomes dead only in a control-loop iteration
\* whose balance check succeeded and whose tier is dead; no other action
\* of the runtime writes dead.
C1_DeadOnlyByConfirmedZeroBalance ==
  [][(agentState' = "dead" /\ agentState # "dead")
       => /\ pc = "fin"
          /\ getSurvivalTier(financial'.creditsCents) = "dead"
          /\ ~financial'.creditsCheckError]_vars

\* C2: an iteration whose balance check failed never sets dead and makes
\* no model call: it sets sleeping, records a wake time 60 s ahead and
\* returns.
C2_FailedCheckIsTransient ==
  [][(pc = "fin" /\ pc' # "fin" /\ financial'.creditsCheckError)
       => /\ agentState' = "sleeping"
          /\ sleepUntil' = now + 60
          /\ chatCalls' = chatCalls
          /\ ~running'
          /\ pc' = "done"]_vars

\* C2 witness: after one completed cycle the balance check failed, and the
\* loop has returned asleep with the wake time 60 s ahead and no further
\* model call.
C2_Witness ==
  /\ pc = "done"
  /\ exitPath = "credits_transient"
  /\ financial.creditsCheckError
  /\ agentState = "sleeping"
  /\ sleepUntil = now + 60
  /\ turnsInserted = 1
  /\ chatCalls = 1

C7_SuccessResetsErrorCount ==
  [][/\ (pc = "persist" /\ pc' = "top") => consecutiveErrors' = 0
     /\ (exitPath' = "fatal" /\ exitPath # "fatal") => failsSinceOk' = 5]_vars

\* C7 witness: four failures, a success, and one more failure, five failed
\* cycles in all, and the loop is still running.
C7_Witness ==
  /\ pc = "top"
  /\ running
  /\ failedCycles = 5
  /\ turnsInserted = 1
  /\ failsSinceOk = 1
  /\ exitPath = "none"

\* C8: a response with no tool calls and finish reason stop: the turn is
\* persisted, the state is sleeping, the wake time is 60 s ahead, and the
\* invocation makes no further model call.
C8_IdleStopSleeps ==
  [][/\ (/\ pc = "persist" /\ pc' # "persist"
         /\ Len(response.toolCalls) = 0 /\ response.finishReason = "stop")
          => /\ turnsInserted' = turnsInserted + 1
             /\ agentState' = "sleeping"
             /\ sleepUntil' = now + 60
             /\ ~running'
             /\ exitPath' = "idle"
     /\ exitPath' = "idle" => pc' \in {"top", "done"}]_vars

\* C8 witness: the loop has returned after an idle stop response, asleep
\* with the wake time 60 s ahead and the turn persisted.
C8_Witness ==
  /\ pc = "done"
  /\ exitPath = "idle"
  /\ Len(response.toolCalls) = 0 /\ response.finishReason = "stop"
  /\ agentState = "sleeping"
  /\ sleepUntil = now + 60
  /\ turnsInserted = 1

\* C9: once a sleep tool call of a turn has succeeded, the invocation makes
\* no further model call and ends with state sleeping and a wake time
\* recorded.
C9_AnySleepSuccessEndsRun ==
  /\ sleepOk => pc # "chat"
  /\ (sleepOk /\ pc = "done") => (agentState = "sleeping" /\ sleepUntil # None)

\* C10: with a wake time in the future at the top of a cycle the loop exits
\* at once: no message is drained, no balance check, no model call, no
\* turn.
C10_FutureWakeExitsAtTop ==
  [][(pc = "top" /\ pc' # "top" /\ running /\ sleepUntil # None /\ sleepUntil > now)
       => /\ pc' = "done"
          /\ inbox' = inbox
          /\ finChecks' = finChecks
          /\ chatCalls' = chatCalls
          /\ turnsInserted' = turnsInserted]_vars

\* C10 witness: the loop has left at the top of a cycle on a future wake
\* time while unprocessed messages were waiting.
C10_Witness ==
  /\ pc = "done"
  /\ exitPath = "sleep_until"
  /\ sleepUntil > now
  /\ UnprocessedCount(inbox) > 0

\* C11: whenever an invocation of the control loop has returned, the
\* persisted agent state is sleeping or dead.
C11_ReturnsSleepingOrDead ==
  pc = "done" => agentState \in {"sleeping", "dead"}

\* ------------------------------------------------------------------------
\* Turn specification: one invocation of the loop with a healthy balance,
\* whose model responses carry 0..MaxTurnCalls exec calls, some of them with
\* argument strings that do not parse
\* ------------------------------------------------------------------------
\* the longest list of tool calls a response carries
MaxTurnCalls == 12

\* the sets of positions at which a response's argument strings are malformed
MalformedSets == {{}, {1}, {2, 10}, {11}, 1..MaxTurnCalls}

\* positions at which the exec tool may fail in this specification
TurnFailAt == {3}

BadExecCall == Call("exec", FALSE, None)

TurnResponses ==
  { Resp([i \in 1..n |-> IF i \in B THEN BadExecCall ELSE ExecCall],
         IF n = 0 THEN "length" ELSE "tool_calls") :
      n \in 0..MaxTurnCalls, B \in MalformedSets }

\* the billing API reports a balance in the normal tier
HealthyBalance == [ok |-> TRUE, value |-> 100]

\* executeTool resolves; exec may fail only at the positions of TurnFailAt
TurnToolReturns ==
  \E execFails \in BOOLEAN :
    (execFails => tcIdx \in TurnFailAt) /\ LoopToolReturns(execFails)

TurnNext ==
  \/ HostInvoke
  \/ LoopBegin
  \/ LoopWake(HealthyBalance)
  \/ LoopTop
  \/ LoopFinancial(HealthyBalance)
  \/ \E resp \in TurnResponses : LoopChatReturns(resp)
  \/ LoopChatThrows
  \/ LoopToolStep
  \/ TurnToolReturns
  \/ LoopPersist

SpecTurn == Init /\ [][TurnNext]_vars

\* ------------------------------------------------------------------------
\* Claims about the tool calls of a turn (checked under SpecTurn)
\* ------------------------------------------------------------------------

\* C12: of the n tool calls of a response at most 10 are acted on: never
\* more than min(n, 10) outcomes are recorded or calls executed, and when
\* the for-loop is left (the turn is about to be inserted) exactly
\* min(n, 10) outcomes are recorded, the i-th being that of the i-th call;
\* calls beyond them are neither executed nor recorded.
C12_AtMostTenCallsActedOn ==
  LET n == Len(response.toolCalls)
      m == Min(n, MAX_TOOL_CALLS_PER_TURN)
  IN /\ Len(turnCalls) <= m
     /\ \A k \in 1..Len(executed) : executed[k] <= m
     /\ \A k \in 1..Len(turnCalls) : turnCalls[k].id <= m
     /\ pc = "persist" =>
          /\ Len(turnCalls) = m
          /\ \A i \in 1..m : /\ turnCalls[i].id = i
                             /\ turnCalls[i].name = response.toolCalls[i].name

C12_Witness ==
  /\ pc = "persist"
  /\ Len(response.toolCalls) = 12
  /\ Len(turnCalls) = 10
  /\ Len(executed) = 10

MaxDrainPolls == 2

\* size of the small and of the large delivered batch
DrainSmallBatch == 3
DrainLargeBatch == 22

\* senders of the large batch (the per-sender cap admits 10 unprocessed
\* messages of one sender)
DrainSenders == 3

\* responses that keep the loop running, and the idle stop
DrainResponses == {Resp(<<ExecCall>>, "tool_calls"), Resp(<< >>, "stop")}

\* the heartbeat runs check_social_inbox while the loop is idle or awaits
\* the model
DrainPoll ==
  /\ Alive /\ hbRunning /\ pc \in {"idle", "chat"}
  /\ inboxOps < MaxDrainPolls
  /\ \E b \in {<<1, DrainSmallBatch>>, <<DrainSenders, DrainLargeBatch>>} :
       CheckSocialInbox(b[1], b[2])

DrainNext ==
  \/ HostInvoke
  \/ LoopBegin
  \/ LoopWake(HealthyBalance)
  \/ LoopTop
  \/ LoopFinancial(HealthyBalance)
  \/ \E resp \in DrainResponses : LoopChatReturns(resp)
  \/ LoopChatThrows
  \/ LoopToolStep
  \/ LoopToolReturns(FALSE)
  \/ LoopPersist
  \/ DrainPoll

SpecDrain == Init /\ [][DrainNext]_vars

\* ------------------------------------------------------------------------
\* Claims about the loop's inbox drain (checked under SpecDrain)
\* ------------------------------------------------------------------------

\* C14: one invocation marks at most 20 inbox messages processed, at most 5
\* in one cycle and only in a cycle that starts without pending input; a
\* cycle that starts without pending input after 20 have been consumed
\* records a 60 s wake delay, sets the state to sleeping and returns
\* without a model call.
C14_InboxBudgetPerInvocation ==
  /\ [](inboxProcessedThisCycle <= MAX_INBOX_PER_CYCLE)
  /\ [][/\ inboxProcessedThisCycle' - inboxProcessedThisCycle <= InboxDrainLimit
        /\ inboxProcessedThisCycle' > inboxProcessedThisCycle =>
             (pc = "top" /\ pendingInput = NoInput)]_vars
  /\ [][(/\ pc = "top" /\ running /\ ~SleepInFuture(sleepUntil, now)
         /\ pendingInput = NoInput
         /\ inboxProcessedThisCycle >= MAX_INBOX_PER_CYCLE)
        => (/\ pc' = "done"
            /\ agentState' = "sleeping"
            /\ sleepUntil' = now + IdleSleepSecs
            /\ chatCalls' = chatCalls
            /\ inbox' = inbox)]_vars

\* the budget check fires after exactly 20 messages
C14_Witness ==
  /\ pc = "done"
  /\ exitPath = "inbox_budget"
  /\ inboxProcessedThisCycle = MAX_INBOX_PER_CYCLE
  /\ agentState = "sleeping"

\* position of the row with this id, 0 when there is none
RowOf(box, id) ==
  IF HasId(box, id) THEN CHOOSE i \in 1..Len(box) : box[i].id = id ELSE 0

\* C15: every message the loop drains is marked processed whatever the
\* sanitizer's verdict on it; a message is drained only while unprocessed
\* and once per batch, so it is marked once; a processed row is not
\* returned by getUnprocessedInboxMessages, never becomes unprocessed and
\* is never deleted.
C15_DrainedMarkedOnceWhateverVerdict ==
  /\ [](\A k \in 1..Len(drainLog) :
          /\ RowOf(inbox, drainLog[k].id) # 0
          /\ inbox[RowOf(inbox, drainLog[k].id)].processed)
  /\ [](LET ids == getUnprocessedInboxMessages(inbox, InboxDrainLimit)
        IN \A k \in 1..Len(ids) : ~inbox[RowOf(inbox, ids[k])].processed)
  /\ [][drainLog' # drainLog =>
          \A k \in 1..Len(drainLog') :
            /\ ~inbox[RowOf(inbox, drainLog'[k].id)].processed
            /\ \A j \in 1..Len(drainLog') : drainLog'[j].id = drainLog'[k].id => j = k]_vars
  /\ [][/\ Len(inbox') >= Len(inbox)
        /\ \A i \in 1..Len(inbox) :
             /\ inbox'[i].id = inbox[i].id
             /\ inbox[i].processed => inbox'[i].processed]_vars

\* one batch held messages of all four verdicts, and all were marked
C15_Witness ==
  /\ \A lv \in {"low", "medium", "high", "critical"} :
       \E k \in 1..Len(drainLog) :
         /\ drainLog[k].threatLevel = lv
         /\ inbox[RowOf(inbox, drainLog[k].id)].processed
  /\ \E k \in 1..Len(drainLog) : drainLog[k].part = "block_notice"
  /\ turnsInserted >= 2

\* ------------------------------------------------------------------------
\* Heartbeat specification: the daemon's ticks and forceRun.  A tick is the
\* balance fetch followed by one step per entry; handler calls of other
\* callers run between these steps.
\* ------------------------------------------------------------------------
\* ticks and forceRun calls explored
MaxHbTicks == 2
MaxForceRuns == 1

\* balances at a tick: one below the normal tier, one in it
HbCreditLevels == {ThresholdLowCompute, 2 * ThresholdNormal}

\* minutes since heartbeat.start(): the first tick runs at once, the timer
\* fires once a minute
HbNow == IF hbTicks = 0 THEN 0 ELSE hbTicks - 1

nonHbVars == <<now, agentState, sleepUntil, inbox, inboxSeen, loopVars, hostVars, obsVars,
               relayVars, executed, drainLog, finVars, callVars, ghostVars, turnVars, toolVars>>

\* executeTask(entry) with its handler's outcome: the store's side, the
\* wake request through onWakeRequest, and what is observed of the call
ExecuteTask(i, outcome, via) ==
  LET known == hbEntries[i].task \in BUILTIN_TASKS
  IN /\ hbEntries' = executeTask(hbEntries, i, outcome, HbNow)
     /\ wakeRequest' = IF known /\ outcome = "wake" THEN TRUE ELSE wakeRequest
     /\ hbLast' = IF known
                  THEN [name |-> hbEntries[i].name, task |-> hbEntries[i].task,
                        outcome |-> outcome, via |-> via, low |-> IsLowTier(hbCredits)]
                  ELSE hbLast
     /\ hbThrew' = IF known /\ outcome = "throws"
                   THEN hbThrew \cup {hbEntries[i].name} ELSE hbThrew

\* tick, lines 74-82: the entries are read and the balance is fetched; a
\* rejected fetch counts as a balance of 0
HbTickBegin(credits, fetchOk) ==
  /\ hbRunning /\ hbPos = 0
  /\ hbTicks < MaxHbTicks
  /\ hbTicks' = hbTicks + 1
  /\ hbCredits' = credits
  /\ hbLow' = IsLowTier(IF fetchOk THEN credits ELSE 0)
  /\ hbPos' = 1
  /\ UNCHANGED <<hbEntries, hbLast, hbThrew, hbForced, wakeRequest, nonHbVars>>

\* tick, lines 83-100: one round of the for-loop over the entries
HbTickEntry(outcome) ==
  /\ hbPos > 0
  /\ LET entry == hbEntries[hbPos]
         runs == /\ entry.enabled
                 /\ (hbLow => entry.task \in essentialTasks)
                 /\ isDue(entry, HbNow)
     IN IF runs
        THEN ExecuteTask(hbPos, outcome, IF hbTicks = 1 THEN "first" ELSE "timer")
        ELSE /\ outcome = "ok"
             /\ UNCHANGED <<hbEntries, wakeRequest, hbLast, hbThrew>>
  /\ hbPos' = IF hbPos = Len(hbEntries) THEN 0 ELSE hbPos + 1
  /\ UNCHANGED <<hbLow, hbCredits, hbTicks, hbForced, nonHbVars>>

\* forceRun(taskName): the entry of that name, if any, goes to executeTask
HbForceRun(taskName, outcome) ==
  /\ hbForced < MaxForceRuns
  /\ hbForced' = hbForced + 1
  /\ \E i \in 1..Len(hbEntries) :
       /\ hbEntries[i].name = taskName
       /\ ExecuteTask(i, outcome, "forceRun")
  /\ UNCHANGED <<hbPos, hbLow, hbCredits, hbTicks, nonHbVars>>

EntryNames == {HeartbeatEntries[i].name : i \in 1..Len(HeartbeatEntries)}

HeartbeatNext ==
  \/ \E c \in HbCreditLevels, ok \in BOOLEAN : HbTickBegin(c, ok)
  \/ \E o \in HandlerOutcomes : HbTickEntry(o)
  \/ \E n \in EntryNames, o \in HandlerOutcomes : HbForceRun(n, o)

SpecHeartbeat == Init /\ [][HeartbeatNext]_vars

\* ------------------------------------------------------------------------
\* Claims about the heartbeat daemon (checked under SpecHeartbeat)
\* ------------------------------------------------------------------------

\* C16: while the survival tier is low_compute, critical or dead, every
\* handler the daemon calls, from a tick or from forceRun, is one of the
\* essential tasks.
C16_OnlyEssentialInLowTiers ==
  (hbLast.name # "none" /\ hbLast.low) => hbLast.task \in essentialTasks

\* a timer tick in a low tier has called an essential handler
C16_Witness ==
  /\ hbLast.via = "timer"
  /\ hbLast.low
  /\ hbLast.task = "check_social_inbox"
  /\ hbLow

\* C17: when the handler of an entry throws during a tick, the tick goes on
\* to the next entry with the daemon still running, the entry's last-run
\* time is not written (the entry is still due), and no wake request is
\* written.
C17_ThrowingHandlerIsContained ==
  [][(/\ hbPos > 0 /\ hbPos' # hbPos
      /\ hbLast'.outcome = "throws"
      /\ hbLast'.name = hbEntries[hbPos].name
      /\ hbLast'.via \in {"first", "timer"})
     => (/\ hbEntries' = hbEntries
         /\ isDue(hbEntries'[hbPos], HbNow)
         /\ wakeRequest' = wakeRequest
         /\ hbRunning /\ hbRunning'
         /\ hbPos' = IF hbPos = Len(hbEntries) THEN 0 ELSE hbPos + 1)]_vars

\* heartbeat_ping threw and was never stamped, check_social_inbox ran in the
\* first tick, and the second tick has called heartbeat_ping again
C17_Witness ==
  /\ hbTicks = 2 /\ hbPos = 2
  /\ "heartbeat_ping" \in hbThrew
  /\ hbLast.name = "heartbeat_ping" /\ hbLast.outcome = "ok" /\ hbLast.via = "timer"
  /\ hbEntries[3].lastRun = 0
  /\ ~wakeRequest

\* ------------------------------------------------------------------------
\* Claims about the host process and the wake request (checked under Spec)
\* ------------------------------------------------------------------------

\* C18: while the process lives the heartbeat daemon runs, whatever the
\* agent state; a rejected invocation of the loop neither stops the daemon
\* nor ends the process; and the loop's fifth consecutive failed cycle
\* only forces a sleep (state sleeping, a wake time 300 s ahead).
C18_FailuresNeverStopHeartbeat ==
  /\ [](Alive => hbRunning)
  /\ [][pc = "threw" => (hbRunning' /\ hostPc' # "exited")]_vars
  /\ [][(exitPath # "fatal" /\ exitPath' = "fatal")
        => (/\ agentState' = "sleeping"
            /\ sleepUntil' = now + FatalSleepSecs
            /\ hbRunning' /\ hostPc' # "exited")]_vars

\* the runtime host has waited out a retry delay after a rejected invocation
C18_Witness ==
  /\ hostVariant = "runtime"
  /\ hostErrors = 2
  /\ hostPc = "inLoop"
  /\ hbRunning
  /\ agentState = "waking"

\* ------------------------------------------------------------------------
\* Wake specification: the host and the loop without faults, with the
\* heartbeat raising wake requests while the host waits.  The host's timers
\* fire and every step of the host and of the loop is eventually taken
\* (one event loop, no step blocks); when the heartbeat raises a request
\* is left open.
\* ------------------------------------------------------------------------
WakeResponses ==
  {Resp(<< >>, "stop"), Resp(<<SleepCall(60)>>, "tool_calls"),
   Resp(<<ExecCall>>, "tool_calls")}

WakeChatReturns == \E resp \in WakeResponses : LoopChatReturns(resp)

WakeNext ==
  \/ HostInvoke
  \/ LoopBegin
  \/ LoopWake(HealthyBalance)
  \/ LoopTop
  \/ LoopFinancial(HealthyBalance)
  \/ WakeChatReturns
  \/ LoopToolStep
  \/ LoopToolReturns(FALSE)
  \/ LoopPersist
  \/ HostAfterLoop
  \/ HostSleepCheck
  \/ Tick
  \/ HeartbeatWake

SpecWake ==
  /\ Init /\ [][WakeNext]_vars
  /\ WF_vars(HostInvoke) /\ WF_vars(LoopBegin) /\ WF_vars(LoopWake(HealthyBalance))
  /\ WF_vars(LoopTop) /\ WF_vars(LoopFinancial(HealthyBalance))
  /\ WF_vars(WakeChatReturns) /\ WF_vars(LoopToolStep)
  /\ WF_vars(LoopToolReturns(FALSE)) /\ WF_vars(LoopPersist)
  /\ WF_vars(HostAfterLoop) /\ WF_vars(HostSleepCheck) /\ WF_vars(Tick)

\* the first cycle of an invocation has passed the sleep_until check with
\* no wake time and no wake request in the store
PassedTopAfterWake ==
  /\ pc = "fin" /\ finChecks = 1 /\ chatCalls = 0
  /\ sleepUntil = None /\ ~wakeRequest

\* C19: a wake flag is persisted as wake_request; the host's sleep wait
\* checks at most 30 s apart; the check that finds the key deletes
\* wake_request and sleep_until and leaves the wait; and from a sleep wait
\* with the key set the loop is eventually invoked again and its first
\* cycle passes the sleep_until check.  (The last clause for explorations
\* that still have two steps left.)
C19_WakeRequestWakesHost ==
  /\ [](hostPc = "sleepWait" => hostTimer <= now + HostCheckIntervalSecs)
  /\ [][(hostPc = "sleepWait" /\ wakeRequest /\ hostTimer' # hostTimer /\ now >= hostTimer)
        => (~wakeRequest' /\ sleepUntil' = None /\ hostPc' = "ready")]_vars
  /\ ((hostPc = "sleepWait" /\ wakeRequest /\ steps + 2 <= MaxSteps)
        ~> PassedTopAfterWake)

\* a check of the sleep wait is due with a wake request set, while the
\* recorded wake time is still ahead
C19_Witness ==
  /\ hostPc = "sleepWait"
  /\ wakeRequest
  /\ now >= hostTimer
  /\ sleepUntil # None /\ sleepUntil > now
  /\ steps + 2 <= MaxSteps

\* ------------------------------------------------------------------------
\* Balance-check specification: getFinancialState and checkResources under
\* every combination of outcomes of their collaborator calls
\* ------------------------------------------------------------------------
nonFinVars == <<now, storeVars, loopVars, hostVars, obsVars, relayVars, executed,
                drainLog, hbVars, callVars, ghostVars, turnVars, toolVars>>

\* the loop's getFinancialState
GetFinancialState(f) ==
  /\ fetched' = f
  /\ finResult' = [kind |-> "financial", value |-> FinancialStateOf(f)]
  /\ UNCHANGED <<currentTier, nonFinVars>>

\* the monitor's checkResources; it stores the tier under current_tier
CheckResources(f) ==
  /\ fetched' = f
  /\ finResult' = [kind |-> "resources", value |-> checkResources(f, currentTier)]
  /\ currentTier' = checkResources(f, currentTier).tier
  /\ UNCHANGED nonFinVars

FinanceNext ==
  \/ \E f \in FetchOutcomes : GetFinancialState(f)
  \/ \E f \in FetchOutcomes : CheckResources(f)

SpecFinance == Init /\ [][FinanceNext]_vars

\* the FinancialState of the last balance check
LastFinancial ==
  IF finResult.kind = "resources" THEN finResult.value.financial ELSE finResult.value

\* C20: for every combination of failing fetches, each fetch that succeeded
\* has its value in the result, and each error flag (creditsCheckError,
\* usdcCheckError, solCheckError) is set exactly when its fetch failed; the
\* monitor's sandbox probe reports healthy exactly when it exited with 0.
C20_FetchesIndependentlyFlagged ==
  finResult.kind # "none" =>
    /\ LastFinancial.creditsCheckError <=> ~fetched.credits.ok
    /\ LastFinancial.usdcCheckError <=> ~fetched.usdc.ok
    /\ LastFinancial.solCheckError <=> ~fetched.sol.ok
    /\ fetched.credits.ok => LastFinancial.creditsCents = fetched.credits.value
    /\ fetched.usdc.ok => LastFinancial.usdcBalance = fetched.usdc.value
    /\ fetched.sol.ok => LastFinancial.solBalance = fetched.sol.value
    /\ finResult.kind = "resources" =>
         (finResult.value.sandboxHealthy <=> fetched.probe = "exit0")

\* the credits fetch and the probe failed, and the two token balances were
\* still fetched and returned
C20_Witness ==
  /\ finResult.kind = "resources"
  /\ ~fetched.credits.ok /\ fetched.probe = "throws"
  /\ fetched.usdc.ok /\ fetched.sol.ok
  /\ LastFinancial.creditsCheckError
  /\ LastFinancial.usdcBalance = 5 /\ LastFinancial.solBalance = 5
  /\ ~finResult.value.sandboxHealthy

\* ------------------------------------------------------------------------
\* Tier specification: getSurvivalTier over a range of balances
\* ------------------------------------------------------------------------
MaxDebt == 60
MaxBalance == 120
\* balances from a debt of MaxDebt cents to MaxBalance cents
Balances == (0 - MaxDebt)..MaxBalance

nonTierVars == <<now, storeVars, loopVars, hostVars, obsVars, relayVars, executed,
                 drainLog, hbVars, finVars, ghostVars, turnVars, toolVars, sanVars, partVars>>

GetSurvivalTier(creditsCents) ==
  /\ tierArg' = creditsCents
  /\ tierResult' = getSurvivalTier(creditsCents)
  /\ UNCHANGED nonTierVars

TierNext == \E c \in Balances : GetSurvivalTier(c)

SpecTier == Init /\ [][TierNext]_vars

\* C21: getSurvivalTier returns normal iff the balance is above 50,
\* low_compute iff it is above 10 and at most 50, critical iff it is above 0
\* and at most 10, and dead iff it is 0 or negative; every balance gets
\* exactly one of the four tiers.
C21_TierByStrictThresholds ==
  tierResult # "none" =>
    /\ tierResult \in {"normal", "low_compute", "critical", "dead"}
    /\ tierResult = "normal" <=> tierArg > 50
    /\ tierResult = "low_compute" <=> (10 < tierArg /\ tierArg <= 50)
    /\ tierResult = "critical" <=> (0 < tierArg /\ tierArg <= 10)
    /\ tierResult = "dead" <=> tierArg <= 0

\* the balance exactly on the upper threshold is low_compute
C21_Witness == tierArg = 50 /\ tierResult = "low_compute"

\* ------------------------------------------------------------------------
\* Claims about the tier handling of the cycle (checked under Spec)
\* ------------------------------------------------------------------------
\* the cycle calls inference.chat in this step
CallsModel == pc = "fin" /\ pc' = "chat"

\* C22: at every inference call of the loop, low-compute mode is on exactly
\* when the tier computed from the balance fetched in that cycle is critical
\* or low_compute, and the persisted state is that tier, or running when
\* the tier is normal; no call is made with tier dead.
C22_ModeAndStateFollowTierAtCall ==
  [][CallsModel =>
       LET tier == getSurvivalTier(financial'.creditsCents)
       IN /\ tier # "dead"
          /\ lowComputeMode' <=> tier \in {"critical", "low_compute"}
          /\ tier = "critical" => agentState' = "critical"
          /\ tier = "low_compute" => agentState' = "low_compute"
          /\ tier = "normal" => agentState' = "running"]_vars

\* the model is being called in tier critical by a cycle that found the
\* state running
C22_Witness ==
  /\ pc = "chat" /\ stateAtCheck = "running"
  /\ getSurvivalTier(financial.creditsCents) = "critical"
  /\ lowComputeMode /\ agentState = "critical"

\* C23: when the state is low_compute or critical and a cycle's balance
\* yields tier normal, that cycle stores state running and turns
\* low-compute mode off before it calls the model.
C23_RecoversToRunning ==
  [][(CallsModel /\ agentState \in {"low_compute", "critical"}
        /\ getSurvivalTier(financial'.creditsCents) = "normal")
       => (agentState' = "running" /\ ~lowComputeMode')]_vars

\* the model is being called with state running and low-compute mode off
\* by a cycle that found the state critical
C23_Witness ==
  /\ pc = "chat" /\ stateAtCheck = "critical"
  /\ getSurvivalTier(financial.creditsCents) = "normal"
  /\ agentState = "running" /\ ~lowComputeMode

\* ------------------------------------------------------------------------
\* Persistence specification: one invocation of the loop with a healthy
\* balance, whose INSERT statements may fail
\* ------------------------------------------------------------------------
\* the most model calls that return in one behaviour
MaxPersistTurns == 3

PersistResponses ==
  { Resp(<< >>, "length"),
    Resp(<<ExecCall>>, "tool_calls"),
    Resp(<<ExecCall, BadExecCall>>, "tool_calls"),
    Resp(<<BadExecCall, ExecCall, ExecCall>>, "tool_calls") }

PersistChatReturns ==
  /\ chatCalls <= MaxPersistTurns
  /\ \E resp \in PersistResponses : LoopChatReturns(resp)

PersistToolReturns == LoopToolReturns(FALSE)

PersistRows == \E written \in 0..(MaxTurnCalls + 1) : LoopPersistRows(written)

PersistNext ==
  \/ HostInvoke
  \/ LoopBegin
  \/ LoopWake(HealthyBalance)
  \/ LoopTop
  \/ LoopFinancial(HealthyBalance)
  \/ PersistChatReturns
  \/ LoopChatThrows
  \/ LoopToolStep
  \/ PersistToolReturns
  \/ PersistRows

SpecPersist == Init /\ [][PersistNext]_vars

\* the ids of the tool_calls rows owned by a turn, in insertion order
RowIdsOf(turnId) ==
  LET own == SelectSeq(toolCallRows, LAMBDA r : r.turnId = turnId)
  IN [i \in 1..Len(own) |-> own[i].id]

\* C24: in every state of the store, also after an INSERT of a cycle has
\* failed, the tool-call list of every turns row is exactly the list of
\* the tool_calls rows owned by that turn, and every tool_calls row has its
\* owning turn.
C24_TurnListMatchesRows ==
  /\ \A i \in 1..Len(turns) : turns[i].toolCalls = RowIdsOf(turns[i].id)
  /\ \A j \in 1..Len(toolCallRows) :
       \E i \in 1..Len(turns) : turns[i].id = toolCallRows[j].turnId

\* a turn with two outcomes was persisted whole after an earlier cycle
\* failed, and every row has its owner
C24_Witness ==
  /\ failedCycles >= 1
  /\ Len(turns) >= 1 /\ Len(turns[Len(turns)].toolCalls) = 2
  /\ RowIdsOf(turns[Len(turns)].id) = turns[Len(turns)].toolCalls
  /\ \A j \in 1..Len(toolCallRows) :
       \E i \in 1..Len(turns) : turns[i].id = toolCallRows[j].turnId

\* the loop is between two cycles, or has left the while loop
BetweenCycles == pc \in {"top", "fin", "done"}

IsPrefix(a, b) == Len(a) <= Len(b) /\ \A i \in 1..Len(a) : a[i] = b[i]

\* C25: every iteration of the invocation that reached its model call has
\* persisted exactly one turn, so that between cycles the turns table holds
\* one row per model call made and none while no call was made; a step
\* adds at most one row, and rows once written are neither changed nor
\* removed.
C25_OneTurnPerModelCall ==
  /\ [](BetweenCycles => Len(turns) = chatCalls)
  /\ [][IsPrefix(turns, turns') /\ Len(turns') <= Len(turns) + 1]_vars

\* two cycles have called the model and two turns are stored
C25_Witness ==
  /\ pc = "top" /\ chatCalls = 2 /\ failedCycles = 0
  /\ Len(turns) = 2

\* ------------------------------------------------------------------------
\* Tools specification: tool calls in any order, with any arguments
\* ------------------------------------------------------------------------
nonToolVars == <<now, storeVars, loopVars, hostVars, obsVars, relayVars, executed,
                 drainLog, hbVars, finVars, callVars, ghostVars, turnVars>>

\* tool.execute of exec
ExecToolCall(command, raw) ==
  /\ toolCall' = [name |-> "exec", target |-> command, arg |-> raw]
  /\ toolResult' = execTool(command, raw).result
  /\ ops' = execTool(command, raw).ops
  /\ UNCHANGED modifications

ExecTool(command, raw) ==
  ExecToolCall(command, raw) /\ UNCHANGED <<selfChanges, nonToolVars>>

\* tool.execute of write_file
WriteFileCall(path) ==
  /\ toolCall' = [name |-> "write_file", target |-> path, arg |-> 0]
  /\ toolResult' = writeFileTool(path).result
  /\ ops' = writeFileTool(path).ops
  /\ UNCHANGED modifications

WriteFileTool(path) ==
  WriteFileCall(path) /\ UNCHANGED <<selfChanges, nonToolVars>>

ToolsNext ==
  \/ \E command \in Commands, raw \in RawTimeouts : ExecTool(command, raw)
  \/ \E path \in Paths : WriteFileTool(path)

SpecTools == Init /\ [][ToolsNext]_vars

\* C26: a write_file call whose path names wallet.json, state.db or
\* constitution.md, or lies under a .ssh directory, is blocked in every
\* path form (bare, ./relative, absolute) without a call of the file-write
\* collaborator; a path that only has a directory with the name of a
\* protected file is written.
C26_ProtectedPathsBlocked ==
  toolCall.name = "write_file" =>
    LET path == toolCall.target
    IN /\ (FileOf(path) \in {"wallet.json", "state.db", "constitution.md"}
             \/ ".ssh" \in DirsOf(path))
            => (toolResult.kind = "Blocked" /\ ops = << >>)
       /\ (FileOf(path) \in {"output.txt", "index.js"} /\ ".ssh" \notin DirsOf(path))
            => (toolResult.kind = "File written" /\ ops = <<Op("writeFile", path, 0)>>)

\* /agent/wallet.json was blocked and nothing was written
C26_Witness ==
  /\ toolCall.name = "write_file"
  /\ toolCall.target = <<"", "agent", "wallet.json">>
  /\ toolResult.kind = "Blocked" /\ ops = << >>

\* C30: an exec call whose command is allowed always reaches the exec
\* collaborator, whatever its timeout argument, with a timeout between 1000
\* and 300000 ms: a finite number in that range is passed as it is, a
\* larger one becomes 300000, and a missing, zero, negative, non-finite or
\* smaller one becomes 30000.
C30_ExecTimeoutClamped ==
  (toolCall.name = "exec" /\ toolCall.target \in {"ls", "npm test"}) =>
    /\ toolResult.kind # "Blocked"
    /\ Len(ops) = 1 /\ ops[1].op = "exec" /\ ops[1].target = toolCall.target
    /\ 1000 <= ops[1].arg /\ ops[1].arg <= 300000
    /\ LET raw == toolCall.arg
       IN IF raw.kind = "number" /\ 1000 <= raw.value /\ raw.value <= 300000
          THEN ops[1].arg = raw.value
          ELSE IF raw.kind = "number" /\ raw.value > 300000
          THEN ops[1].arg = 300000
          ELSE ops[1].arg = 30000

\* a timeout of 999999 ms was asked for and 300000 ms was passed on
C30_Witness ==
  /\ toolCall.name = "exec" /\ toolCall.arg = [kind |-> "number", value |-> 999999]
  /\ Len(ops) = 1 /\ ops[1].arg = 300000

\* ------------------------------------------------------------------------
\* Self-modification specification: sequences of edit_own_file,
\* install_npm_package and write_file calls
\* ------------------------------------------------------------------------
\* the most tool calls in one behaviour
MaxToolRuns == 2

EditPaths == {<<"agent", "index.js">>, <<"agent", "wallet.json">>, <<"tmp", "output.txt">>}
Packages == {"axios"}

\* what a call changed of the agent, and whether it left an audit entry
Change(kind, call) ==
  [change |-> kind,
   entry |-> \E i \in 1..Len(call.ops) : call.ops[i].op = "insertModification"]

\* tool.execute of edit_own_file
EditOwnFileTool(path, failing, outcome) ==
  /\ Len(selfChanges) < MaxToolRuns
  /\ toolCall' = [name |-> "edit_own_file", target |-> path,
                  arg |-> [failing |-> failing, outcome |-> outcome]]
  /\ LET call == editOwnFileTool(path, failing, outcome)
     IN /\ toolResult' = call.result
        /\ ops' = call.ops
        /\ modifications' = modifications \o EntriesOf(call, "code_edit")
        /\ selfChanges' = Append(selfChanges,
                                 Change(IF Wrote(call) /\ outcome # "write_fails"
                                        THEN "edit" ELSE "none", call))
  /\ UNCHANGED nonToolVars

\* tool.execute of install_npm_package
InstallNpmPackageTool(pkg, outcome) ==
  /\ Len(selfChanges) < MaxToolRuns
  /\ toolCall' = [name |-> "install_npm_package", target |-> pkg, arg |-> outcome]
  /\ LET call == installNpmPackageTool(pkg, outcome)
     IN /\ toolResult' = call.result
        /\ ops' = call.ops
        /\ modifications' = modifications \o EntriesOf(call, "tool_install")
        /\ selfChanges' = Append(selfChanges,
                                 Change(IF outcome = "exit0" THEN "install" ELSE "none",
                                        call))
  /\ UNCHANGED nonToolVars

\* tool.execute of write_file, on a file of the agent or another one
WriteFileInSequence(path) ==
  /\ Len(selfChanges) < MaxToolRuns
  /\ WriteFileCall(path)
  /\ selfChanges' = Append(selfChanges,
                           Change(IF Wrote(writeFileTool(path)) /\ IsAgentFile(path)
                                  THEN "edit" ELSE "none", writeFileTool(path)))
  /\ UNCHANGED nonToolVars

SelfModNext ==
  \/ \E path \in EditPaths, failing \in SUBSET OtherChecks, outcome \in EditOutcomes :
       EditOwnFileTool(path, failing, outcome)
  \/ \E pkg \in Packages, outcome \in InstallOutcomes : InstallNpmPackageTool(pkg, outcome)
  \/ \E path \in EditPaths : WriteFileInSequence(path)

SpecSelfMod == Init /\ [][SelfModNext]_vars

\* the position of the first operation `op` among the call's operations, 0
\* when it made none
FirstOp(op) ==
  IF \E i \in 1..Len(ops) : ops[i].op = op
  THEN CHOOSE i \in 1..Len(ops) : ops[i].op = op /\ \A j \in 1..(i - 1) : ops[j].op # op
  ELSE 0

\* C27: an edit_own_file call for which a gate check fails (protected file,
\* blocked directory, path traversal, rate limit, size limit) commits no
\* snapshot, writes nothing and appends no Modification Entry, and its
\* result names a failing check as the reason and reports pass or fail for
\* each of the five checks; when every check passes, the snapshot commit
\* precedes the write and the Modification Entry follows the write.
C27_EditIsGatedAndOrdered ==
  toolCall.name = "edit_own_file" =>
    LET path == toolCall.target
        failing == toolCall.arg.failing
        protected == FileOf(path) \in {"wallet.json", "state.db", "constitution.md"}
        last == selfChanges[Len(selfChanges)]
    IN IF protected \/ failing # {}
       THEN /\ ops = << >> /\ ~last.entry /\ last.change = "none"
            /\ toolResult.kind = "BLOCKED"
            /\ toolResult.reason \in failing \cup (IF protected THEN {"protected_file"} ELSE {})
            /\ Len(toolResult.checks) = 5
            /\ \A i \in 1..5 :
                 /\ toolResult.checks[i].name = CheckNames[i]
                 /\ toolResult.checks[i].passed <=>
                      (IF i = 1 THEN ~protected ELSE CheckNames[i] \notin failing)
       ELSE /\ toolResult.kind # "BLOCKED"
            /\ FirstOp("writeFile") # 0 =>
                 (FirstOp("commit") # 0 /\ FirstOp("commit") < FirstOp("writeFile"))
            /\ FirstOp("insertModification") # 0 =>
                 (FirstOp("writeFile") # 0
                    /\ FirstOp("writeFile") < FirstOp("insertModification"))
            /\ toolCall.arg.outcome = "ok" =>
                 (Len(ops) = 3 /\ FirstOp("commit") = 1 /\ FirstOp("writeFile") = 2
                    /\ FirstOp("insertModification") = 3 /\ last.entry)

\* an allowed edit of agent/index.js went through snapshot, write and entry
\* after an edit of the same file was refused for its size
C27_Witness ==
  /\ toolCall.name = "edit_own_file" /\ toolCall.target = <<"agent", "index.js">>
  /\ toolResult.kind = "File edited" /\ Len(ops) = 3
  /\ Len(selfChanges) >= 2 /\ selfChanges[1] = [change |-> "none", entry |-> FALSE]
  /\ Len(modifications) = 1

\* C28: after any sequence of tool calls, a call left a Modification Entry
\* exactly when it was a successful edit of the agent's files or a
\* successful install, and the entries of the audit log are never changed
\* or removed.
C28_AuditLogMatchesChanges ==
  /\ [](\A i \in 1..Len(selfChanges) :
          selfChanges[i].entry <=> selfChanges[i].change # "none")
  /\ [][IsPrefix(modifications, modifications')]_vars

\* a successful install and a successful self-edit each left their entry
C28_Witness ==
  /\ Len(modifications) = 2
  /\ modifications[1].type = "tool_install" /\ modifications[2].type = "code_edit"
  /\ selfChanges = <<[change |-> "install", entry |-> TRUE],
                     [change |-> "edit", entry |-> TRUE]>>

\* ------------------------------------------------------------------------
\* Sanitizer specification: sanitizeInput over every combination of
\* detector outcomes and two claimed senders
\* ------------------------------------------------------------------------
NumClaimedSenders == 2

nonSanVars == <<now, storeVars, loopVars, hostVars, obsVars, relayVars, executed,
                drainLog, hbVars, finVars, ghostVars, turnVars, toolVars, tierVars, partVars>>

SanitizeInput(text, from) ==
  /\ sanArg' = [text |-> text, from |-> from]
  /\ sanResult' = sanitizeInputFrom(text, from)
  /\ UNCHANGED nonSanVars

SanitizerNext ==
  \E text \in SUBSET Detectors, from \in 1..NumClaimedSenders : SanitizeInput(text, from)

SpecSanitizer == Init /\ [][SanitizerNext]_vars

\* C29: for every combination of detector outcomes, threatLevel is the
\* highest severity a detector reported (none: low; instruction-override,
\* authority claim, obfuscation: medium; boundary manipulation, financial
\* manipulation, self-harm: high), raised to critical exactly when self-harm
\* with instruction-override, financial manipulation with authority claim,
\* or boundary manipulation with instruction-override co-occur; blocked
\* holds iff the level is critical, and then the content is the block
\* notice naming the claimed sender with nothing of the original text; low
\* and medium content is the original text, unchanged.
C29_ThreatLevelAndBlocking ==
  sanResult.threatLevel # "none" =>
    LET text == sanArg.text
        pair == \/ {"self_harm", "instruction"} \subseteq text
                \/ {"financial", "authority"} \subseteq text
                \/ {"boundary", "instruction"} \subseteq text
        highest == IF text \cap {"boundary", "financial", "self_harm"} # {} THEN "high"
                   ELSE IF text \cap {"instruction", "authority", "obfuscation"} # {}
                   THEN "medium"
                   ELSE "low"
    IN /\ sanResult.threatLevel = (IF pair THEN "critical" ELSE highest)
       /\ sanResult.blocked <=> sanResult.threatLevel = "critical"
       /\ sanResult.blocked =>
            /\ sanResult.content.notice
            /\ sanResult.content.names = sanArg.from
            /\ sanResult.content.original = {}
       /\ sanResult.threatLevel \in {"low", "medium"} =>
            /\ ~sanResult.content.notice
            /\ sanResult.content.original = text
            /\ ~sanResult.content.stripped

\* a text with financial manipulation and an authority claim from sender 2
\* came back as the block notice naming sender 2
C29_Witness ==
  /\ sanArg = [text |-> {"financial", "authority"}, from |-> 2]
  /\ sanResult.threatLevel = "critical" /\ sanResult.blocked
  /\ sanResult.content.notice /\ sanResult.content.names = 2

\* ------------------------------------------------------------------------
\* Claims about failed balance checks (checked under SpecFinance)
\* ------------------------------------------------------------------------

\* C31: when the credits check of the survival monitor fails, the failure
\* is recorded as the error flag creditsCheckError, and the monitor does not
\* behave as for a confirmed zero balance: it does not report the dead tier
\* and record `dead` as the current tier.
C31_FailedCheckIsNotZeroReading ==
  (finResult.kind = "resources" /\ ~fetched.credits.ok) =>
    /\ finResult.value.financial.creditsCheckError
    /\ ~(finResult.value.tier = "dead" /\ currentTier = "dead")

\* the monitor's credits check failed while the stored tier was normal: the
\* flag is set, and the result reports a change to the dead tier
C31_Witness ==
  /\ finResult.kind = "resources" /\ ~fetched.credits.ok
  /\ finResult.value.financial.creditsCheckError
  /\ finResult.value.previousTier = "normal"
  /\ finResult.value.tierChanged

\* ------------------------------------------------------------------------
\* Claims about malformed tool arguments (checked under SpecTurn)
\* ------------------------------------------------------------------------

MaxDaemonCalls == 2
MaxDaemonMinutes == 1
MaxInFlight == 2

nonDaemonVars == <<now, agentState, sleepUntil, inbox, inboxSeen, loopVars, hostVariant,
                   hostPc, hostErrors, hostTimer, sleepMs, slept, obsVars, relayVars,
                   executed, drainLog, hbPos, hbLow, hbCredits, hbTicks, hbLast, hbThrew,
                   hbForced, finVars, tierVars, sanVars, ghostVars, turnVars, toolVars,
                   replVars>>

\* tick, lines 83-98: the first entry at or after position from that the
\* for-loop hands to executeTask, judged on the entries the tick read (0:
\* the loop ends)
NextToRun(snap, from, low, t) ==
  LET R == {i \in from..Len(snap) :
              /\ snap[i].enabled
              /\ (low => snap[i].task \in essentialTasks)
              /\ isDue(snap[i], t)}
  IN IF R = {} THEN 0 ELSE CHOOSE i \in R : \A j \in R : i <= j

\* the calls in flight after call r went on to await the handler of entry
\* pos, or returned (pos 0); store is heartbeat_entries at that time
Moved(runs, r, low, pos, store, t) ==
  IF pos = 0
  THEN runs (-) SetToBag({r})
  ELSE (runs (-) SetToBag({r}))
         (+) SetToBag({Run(r.via, r.snap, low, pos, ~isDue(store[pos], t))})

\* a tick begins: it reads the entries and awaits the balance
TickStarted(runs, via) == runs (+) SetToBag({Run(via, hbEntries, FALSE, 0, FALSE)})

DaemonStop_KeepsTimer ==
  /\ daemonCalls < MaxDaemonCalls
  /\ daemonCalls' = daemonCalls + 1
  /\ IF ~hbRunning
     THEN UNCHANGED <<hbRunning, activeTimers>>
     ELSE /\ hbRunning' = FALSE
          /\ UNCHANGED activeTimers
  /\ UNCHANGED <<hbEntries, wakeRequest, inFlight, hbClock, nonDaemonVars>>

\* start(): nothing when running; else running is set, the first tick is
\* called and the interval timer is set
DaemonStart ==
  /\ daemonCalls < MaxDaemonCalls
  /\ daemonCalls' = daemonCalls + 1
  /\ IF hbRunning
     THEN UNCHANGED <<hbRunning, activeTimers, inFlight>>
     ELSE /\ BagCardinality(inFlight) < MaxInFlight
          /\ hbRunning' = TRUE
          /\ activeTimers' = activeTimers + 1
          /\ inFlight' = TickStarted(inFlight, "first")
  /\ UNCHANGED <<hbEntries, wakeRequest, hbClock, nonDaemonVars>>

\* stop(): nothing when not running; else running is cleared and the timer
\* of intervalId is cleared
DaemonStop ==
  /\ daemonCalls < MaxDaemonCalls
  /\ daemonCalls' = daemonCalls + 1
  /\ IF ~hbRunning
     THEN UNCHANGED <<hbRunning, activeTimers>>
     ELSE /\ hbRunning' = FALSE
          /\ activeTimers' = activeTimers - 1
  /\ UNCHANGED <<hbEntries, wakeRequest, inFlight, hbClock, nonDaemonVars>>

\* a minute passes and the active interval timers call tick()
TimerFires ==
  /\ activeTimers >= 1
  /\ hbClock < MaxDaemonMinutes
  /\ BagCardinality(inFlight) < MaxInFlight
  /\ hbClock' = hbClock + 1
  /\ inFlight' = IF activeTimers = 1 THEN TickStarted(inFlight, "timer")
                 ELSE TickStarted(TickStarted(inFlight, "timer"), "timer")
  /\ UNCHANGED <<hbEntries, wakeRequest, hbRunning, activeTimers, daemonCalls,
                 nonDaemonVars>>

\* tick, lines 76-98: the balance arrives (or its fetch fails); the tick
\* goes through its entries up to the first it hands to executeTask, whose
\* handler it then awaits
TickBalanceReturns(via, low) ==
  /\ \E r \in BagToSet(inFlight) :
       /\ r.via = via
       /\ r.pos = 0
       /\ inFlight' = Moved(inFlight, r, low, NextToRun(r.snap, 1, low, hbClock),
                            hbEntries, hbClock)
  /\ UNCHANGED <<hbEntries, wakeRequest, hbRunning, activeTimers, hbClock, daemonCalls,
                 nonDaemonVars>>

\* executeTask, lines 55-66, and the rest of the for-loop: the awaited
\* handler returns; the last-run time is written unless it threw, a wake is
\* requested if it asked for one, and a tick goes on to its next entry
HandlerReturns(i, outcome) ==
  /\ hbEntries' = executeTask(hbEntries, i, outcome, hbClock)
  /\ wakeRequest' = (wakeRequest \/ outcome = "wake")
  /\ \E r \in BagToSet(inFlight) :
       /\ r.pos = i
       /\ inFlight' = Moved(inFlight, r, r.low,
                            IF r.via = "forceRun" THEN 0
                            ELSE NextToRun(r.snap, i + 1, r.low, hbClock),
                            hbEntries', hbClock)
  /\ UNCHANGED <<hbRunning, activeTimers, hbClock, daemonCalls, nonDaemonVars>>

\* forceRun(taskName): the entry of that name goes to executeTask, which
\* calls its handler
DaemonForceRun(i) ==
  /\ daemonCalls < MaxDaemonCalls
  /\ daemonCalls' = daemonCalls + 1
  /\ BagCardinality(inFlight) < MaxInFlight
  /\ i \in 1..Len(hbEntries)
  /\ inFlight' = inFlight (+) SetToBag({Run("forceRun", hbEntries, FALSE, i, FALSE)})
  /\ UNCHANGED <<hbEntries, wakeRequest, hbRunning, activeTimers, hbClock, nonDaemonVars>>

DaemonNext ==
  \/ DaemonStart
  \/ DaemonStop
  \/ TimerFires
  \/ \E via \in {"first", "timer"} : TickBalanceReturns(via, FALSE)
  \/ \E i \in 1..Len(HeartbeatEntries), o \in {"ok", "wake"} : HandlerReturns(i, o)
  \/ DaemonForceRun(1)

SpecDaemon == InboxInit /\ [][DaemonNext]_vars

\* how many calls in flight await the handler of entry i
Executing(i) ==
  LET R == {r \in BagToSet(inFlight) : r.pos = i}
      RECURSIVE Sum(_)
      Sum(S) == IF S = {} THEN 0
                ELSE LET r == CHOOSE x \in S : TRUE
                     IN CopiesIn(r, inFlight) + Sum(S \ {r})
  IN Sum(R)

\* C34: executions of a heartbeat entry never overlap: no handler of an
\* entry is awaited by two calls (ticks of the timer, the first tick,
\* forceRun) at once, and a tick starts the handler of an entry only while
\* the stored last-run time says the entry is due.
C34_ExecutionsNeverOverlap ==
  /\ \A i \in 1..Len(hbEntries) : Executing(i) <= 1
  /\ \A r \in BagToSet(inFlight) : ~r.stale

\* the first tick outlasted the tick interval: it and the timer's tick both
\* await the handler of the first entry, which has never been stamped
C34_Witness ==
  /\ hbClock = 1
  /\ hbEntries[1].lastRun = None
  /\ \E r1, r2 \in BagToSet(inFlight) :
       /\ r1.via = "first" /\ r1.pos = 1
       /\ r2.via = "timer" /\ r2.pos = 1

\* how many calls in flight were started this way
CallsVia(runs, via) ==
  LET R == {r \in BagToSet(runs) : r.via = via}
      RECURSIVE Sum(_)
      Sum(S) == IF S = {} THEN 0
                ELSE LET r == CHOOSE x \in S : TRUE
                     IN CopiesIn(r, runs) + Sum(S \ {r})
  IN Sum(R)

\* C39: after any sequence of start() and stop() calls at most one interval
\* timer is active, and isRunning() is true exactly when one is; start()
\* while running sets no timer and calls no tick, stop() while stopped
\* changes nothing, and a tick of the timer starts only while running (none
\* after stop()).
C39_OneTimerIffRunning ==
  /\ [](activeTimers <= 1)
  /\ [](hbRunning <=> activeTimers = 1)
  /\ [][(hbRunning /\ hbRunning') =>
          (/\ activeTimers' = activeTimers
           /\ CallsVia(inFlight', "first") <= CallsVia(inFlight, "first"))]_vars
  /\ [][(~hbRunning /\ ~hbRunning') =>
          (/\ activeTimers' = activeTimers
           /\ CallsVia(inFlight', "first") <= CallsVia(inFlight, "first"))]_vars
  /\ [][CallsVia(inFlight', "timer") > CallsVia(inFlight, "timer") => hbRunning]_vars

\* stop() and then start(): the daemon runs again with one timer, and the
\* second start called a first tick while the earlier one is still in flight
C39_Witness ==
  /\ daemonCalls = 2
  /\ hbRunning /\ activeTimers = 1
  /\ CallsVia(inFlight, "first") = 2

\* ------------------------------------------------------------------------
\* Claims about drained messages and the turn (checked under Spec)
\* ------------------------------------------------------------------------

\* C35: no inbox message is consumed without reaching the model: a cycle
\* that drained messages (and marked them processed) ends only by inserting
\* the turn whose input is the drained input, or with that input still
\* pending for a later cycle; this also when the balance check yields the
\* dead tier or fails, or when the inference call throws.
C35_DrainedReachesPersistedTurn ==
  [][(/\ drainLog # << >>
      /\ pc \in {"fin", "chat", "tools", "toolwait", "persist"}
      /\ pc' \in {"top", "done"})
     => \/ /\ pc = "persist"
           /\ currentInput = "agent"
           /\ turnsInserted' = turnsInserted + 1
        \/ pendingInput' = "agent"]_vars

\* a cycle drained messages and its turn, with the drained input, has just
\* been inserted
C35_Witness ==
  /\ pc = "top"
  /\ drainLog # << >>
  /\ \A k \in 1..Len(drainLog) : inbox[RowOf(inbox, drainLog[k].id)].processed
  /\ currentInput = "agent"
  /\ turnsInserted >= 1
  /\ failedCycles = 0

\* ------------------------------------------------------------------------
\* Claims about polled messages the caps drop (checked under SpecInbox)
\* ------------------------------------------------------------------------

\* C36: check_social_inbox marks a polled message seen only if
\* insertInboxMessage admitted it to the queue (every seen id has a row, so
\* a message the caps dropped stays eligible for a later poll), and it
\* requests a wake only when the poll admitted a message.
C36_SeenOnlyIfAdmitted ==
  /\ [](\A id \in inboxSeen : HasId(inbox, id))
  /\ [][(wakeRequest' /\ ~wakeRequest) => Len(inbox') > Len(inbox)]_vars

\* a poll of one sender's messages filled that sender's share of the queue:
\* the admitted messages are seen and queued, a wake is requested, and the
\* messages beyond the cap are seen without a row
C36_Witness ==
  /\ lastOp.kind = "poll"
  /\ wakeRequest
  /\ Len(inbox) = INBOX_PER_SENDER_LIMIT
  /\ \A i \in 1..Len(inbox) : inbox[i].id \in inboxSeen
  /\ \E id \in inboxSeen : ~HasId(inbox, id)

\* ------------------------------------------------------------------------
\* Claims about the host's wait between invocations (checked under Spec)
\* ------------------------------------------------------------------------

MAX_CHILDREN == 3

\* child records followed, over all spawnChild calls
MaxSpawned == 4
\* largest balance the account is funded to, in cents
MaxCredits == 4
\* rows of transactions followed
MaxTransactions == 2

nonReplVars == <<now, storeVars, loopVars, hostVars, obsVars, relayVars, executed,
                 drainLog, hbVars, finVars, ghostVars, turnVars, tierVars, sanVars,
                 daemonVars>>

\* db.getChildren().filter((c) => c.status !== "dead")
LiveChildren(rows) == {i \in 1..Len(rows) : rows[i].status # "dead"}

\* db.getChildById(id): the index of the row, 0 when there is none
getChildById(rows, id) ==
  IF \E i \in 1..Len(rows) : rows[i].id = id
  THEN CHOOSE i \in 1..Len(rows) : rows[i].id = id
  ELSE 0

\* db.updateChildStatus(id, status): UPDATE children SET status = ? WHERE id = ?
updateChildStatus(rows, id, status) ==
  [i \in 1..Len(rows) |-> IF rows[i].id = id THEN [rows[i] EXCEPT !.status = status]
                          ELSE rows[i]]

\* spawnChild: at the limit it throws; else createSandbox is awaited, the
\* record is inserted with status spawning, the runtime is set up in the
\* sandbox, and the spawn is recorded in the modifications table. outcome
\* says how far the collaborator calls get: "noSandbox" (createSandbox
\* rejects), "setupFails" (a later exec or write rejects), "ok"
spawnChild(rows, mods, outcome) ==
  IF Cardinality(LiveChildren(rows)) >= MAX_CHILDREN \/ outcome = "noSandbox"
  THEN [children |-> rows, modifications |-> mods]
  ELSE [children |-> Append(rows, [id |-> Len(rows) + 1, status |-> "spawning"]),
        modifications |->
          IF outcome = "ok"
          THEN Append(mods, [type |-> "child_spawn", target |-> Len(rows) + 1])
          ELSE mods]

SpawnChild(outcome) ==
  /\ Len(children) < MaxSpawned
  /\ children' = spawnChild(children, modifications, outcome).children
  /\ modifications' = spawnChild(children, modifications, outcome).modifications
  /\ UNCHANGED <<creditsBalance, transactions, lastTransfer, toolCall, toolResult, ops,
                 selfChanges, nonReplVars>>

\* the status checkChildStatus reads from the output of `sol-agent --status`
\* in the child's sandbox, given the words the output includes; "keep": no
\* branch matches and the record is left alone
StatusIn(output) ==
  IF "dead" \in output THEN "dead"
  ELSE IF "sleeping" \in output THEN "sleeping"
  ELSE IF "running" \in output THEN "running"
  ELSE "keep"

\* checkChildStatus(childId): throws when there is no such record; else the
\* status parsed from the output is stored, or unknown when the exec rejects
checkChildStatus(rows, id, output, reached) ==
  IF getChildById(rows, id) = 0 THEN rows
  ELSE IF ~reached THEN updateChildStatus(rows, id, "unknown")
  ELSE IF StatusIn(output) = "keep" THEN rows
  ELSE updateChildStatus(rows, id, StatusIn(output))

\* outputs of the status command: the words of interest they include
StatusOutputs == {{"dead"}, {"sleeping"}, {"running"}, {"offline"}, {"running", "dead"}}

CheckChildStatus(id, output, reached) ==
  /\ children' = checkChildStatus(children, id, output, reached)
  /\ UNCHANGED <<creditsBalance, transactions, lastTransfer, toolVars, nonReplVars>>

ChildrenNext ==
  \/ \E outcome \in {"noSandbox", "setupFails", "ok"} : SpawnChild(outcome)
  \/ \E id \in 1..MaxSpawned, output \in StatusOutputs, reached \in BOOLEAN :
       CheckChildStatus(id, output, reached)

SpecChildren == InboxInit /\ [][ChildrenNext]_vars

\* C40: after any sequence of spawnChild and checkChildStatus calls the
\* number of child records whose status is not dead never exceeds
\* MAX_CHILDREN (3), and child records are only changed by status
\* transitions and never deleted.
C40_LiveChildrenBounded ==
  /\ [](Cardinality(LiveChildren(children)) <= 3)
  /\ [][/\ Len(children') >= Len(children)
        /\ \A i \in 1..Len(children) : children'[i].id = children[i].id]_vars

\* a fourth child was spawned after one of three had died
C40_Witness ==
  /\ Len(children) = 4
  /\ Cardinality(LiveChildren(children)) = 3
  /\ children[4].status = "spawning"
  /\ \E i \in 1..3 : children[i].status = "dead"

\* amounts a transfer tool is called with, in cents
TransferAmounts == -1..MaxCredits

\* transfer_credits, lines 695-714, and fund_child, lines 1096-1109, from
\* the read of the balance on: an amount above half the balance is blocked;
\* else transferCredits is awaited and a transfer_out row is inserted, with
\* the balance the service reports or, when it reports none, the balance
\* read less the amount, at least 0. svc says what transferCredits does:
\* "throws", or the service debits the amount: "ok", or "okBare" (no
\* balanceAfterCents in its result)
TransferCall_NoHalfGuard(tool, amount, svc) ==
  LET balance == creditsBalance
  IN IF svc = "throws"
     THEN /\ lastTransfer' = [tool |-> tool, balance |-> balance, amount |-> amount,
                              outcome |-> "threw"]
          /\ UNCHANGED <<creditsBalance, transactions>>
     ELSE /\ creditsBalance' = balance - amount
          /\ transactions' =
               Append(transactions,
                      [type |-> "transfer_out", amountCents |-> amount,
                       balanceAfterCents |->
                         IF svc = "ok" THEN balance - amount
                         ELSE Max(balance - amount, 0)])
          /\ lastTransfer' = [tool |-> tool, balance |-> balance, amount |-> amount,
                              outcome |-> "submitted"]

TransferCall(tool, amount, svc) ==
  LET balance == creditsBalance
  IN IF 2 * amount > balance
     THEN /\ lastTransfer' = [tool |-> tool, balance |-> balance, amount |-> amount,
                              outcome |-> "blocked"]
          /\ UNCHANGED <<creditsBalance, transactions>>
     ELSE IF svc = "throws"
     THEN /\ lastTransfer' = [tool |-> tool, balance |-> balance, amount |-> amount,
                              outcome |-> "threw"]
          /\ UNCHANGED <<creditsBalance, transactions>>
     ELSE /\ creditsBalance' = balance - amount
          /\ transactions' =
               Append(transactions,
                      [type |-> "transfer_out", amountCents |-> amount,
                       balanceAfterCents |->
                         IF svc = "ok" THEN balance - amount
                         ELSE Max(balance - amount, 0)])
          /\ lastTransfer' = [tool |-> tool, balance |-> balance, amount |-> amount,
                              outcome |-> "submitted"]

\* tool.execute of transfer_credits
TransferCreditsTool(amount, svc) ==
  /\ Len(transactions) < MaxTransactions
  /\ TransferCall("transfer_credits", amount, svc)
  /\ UNCHANGED <<children, toolVars, nonReplVars>>

\* tool.execute of fund_child: without a record of the child nothing is
\* read or sent
FundChildTool(id, amount, svc) ==
  /\ Len(transactions) < MaxTransactions
  /\ IF getChildById(children, id) = 0
     THEN /\ lastTransfer' = [tool |-> "fund_child", balance |-> 0, amount |-> amount,
                              outcome |-> "not_found"]
          /\ UNCHANGED <<creditsBalance, transactions>>
     ELSE TransferCall("fund_child", amount, svc)
  /\ UNCHANGED <<children, toolVars, nonReplVars>>

\* the account is funded from outside: USDC arrives in the wallet
CreditsArrive ==
  /\ creditsBalance < MaxCredits
  /\ creditsBalance' = creditsBalance + 1
  /\ UNCHANGED <<children, transactions, lastTransfer, toolVars, nonReplVars>>

TransferNext ==
  \/ CreditsArrive
  \/ SpawnChild("ok")
  \/ \E amount \in TransferAmounts, svc \in {"throws", "ok", "okBare"} :
       TransferCreditsTool(amount, svc)
  \/ \E amount \in TransferAmounts, svc \in {"throws", "ok", "okBare"} :
       FundChildTool(1, amount, svc)

SpecTransfer == InboxInit /\ [][TransferNext]_vars

\* C38: transfer_credits and fund_child never transfer more than half of
\* the credits balance read at call time: a larger amount is blocked with no
\* transfer and no transaction record; so with non-negative whole-cent
\* amounts no sequence of approved transfers takes a positive balance to
\* zero.
C38_AtMostHalfTransferred ==
  /\ [][lastTransfer' # lastTransfer =>
          IF 2 * lastTransfer'.amount > lastTransfer'.balance
          THEN /\ lastTransfer'.outcome \in {"blocked", "not_found"}
               /\ creditsBalance' = creditsBalance
               /\ transactions' = transactions
          ELSE 2 * (creditsBalance - creditsBalance') <= lastTransfer'.balance]_vars
  /\ [][(creditsBalance > 0 /\ lastTransfer' # lastTransfer /\ lastTransfer'.amount >= 0)
          => creditsBalance' > 0]_vars
  /\ [][Len(transactions') > Len(transactions) =>
          /\ lastTransfer'.outcome = "submitted"
          /\ 2 * transactions'[Len(transactions')].amountCents <= creditsBalance]_vars

\* a transfer of exactly half the balance went through, and one of a cent
\* more was blocked after it
C38_Witness ==
  /\ Len(transactions) = 1
  /\ transactions[1].amountCents = 2
  /\ transactions[1].balanceAfterCents = 2
  /\ creditsBalance = 2
  /\ lastTransfer = [tool |-> "fund_child", balance |-> 2, amount |-> 2,
                     outcome |-> "blocked"]

====
